---- MODULE Spec2Model ----
(***************************************************************************)
(* A model of the data-analysis backend: the six tool wrappers             *)
(* (SnowflakeTool, SQLServerTool, PDFLoaderTool, EDATool, ChartTool,       *)
(* ReportTool) and the Flask routing layer that composes them.             *)
(*                                                                         *)
(* A Python dict is a TLA+ record whose DOMAIN is the dict's key set, so   *)
(* "the envelope has a message" is  "message" \in DOMAIN result.           *)
(* An optional value is a sequence of length 0 (None) or 1.                *)
(* A cell of a table is a set: {} is a null (NaN/None), {v} holds v.       *)
(* Numbers are exact: a float result is kept as a fraction, or as          *)
(* (p + k*sqrt(r))/d where a standard deviation is involved.               *)
(***************************************************************************)
EXTENDS Integers, Sequences, FiniteSets, TLC

VARIABLES
    current_dataframe,  \* routes.py: the module-level global
    eda_data,           \* EDATool.current_data
    chart_data,         \* ChartTool.current_data
    report_data,        \* ReportTool.current_data
    report_content,     \* ReportTool.report_content
    loaded_documents,   \* PDFLoaderTool.loaded_documents
    sf_connection,      \* SnowflakeTool.connection
    ms_connection,      \* SQLServerTool.connection
    sf_config,          \* SnowflakeTool.config
    ms_config,          \* SQLServerTool.config
    call,               \* the operation last invoked and its arguments
    result,             \* what it returned (an envelope) or raised
    disk,               \* the files in the uploads and reports directories
    now,                \* the clock, in seconds
    wire,               \* what the last call did on the network
    threads             \* the requests being handled at the same time

dataVars == <<current_dataframe, eda_data, chart_data, report_data>>
dbVars == <<sf_connection, ms_connection, sf_config, ms_config>>
toolVars == <<report_content, loaded_documents, sf_connection, ms_connection,
              sf_config, ms_config>>
outVars == <<call, result>>
envVars == <<disk, now, threads>>
vars == <<current_dataframe, eda_data, chart_data, report_data, report_content,
          loaded_documents, sf_connection, ms_connection, sf_config, ms_config,
          call, result, disk, now, wire, threads>>

----------------------------------------------------------------------------
(* Bounds of the model. *)

\* longest freely chosen prefix of a column
MaxLen == 2
\* largest cell value
MaxVal == 2
\* longest run of one repeated value appended to a column
MaxPad == 10
\* rows of the tables the correlation matrix is computed over
CorrRows == 3
\* largest cell value of those tables
CorrMaxVal == 1

----------------------------------------------------------------------------
(* Values. *)

None == <<>>
Some(x) == <<x>>
Get(o) == o[1]

Max2(a, b) == IF a >= b THEN a ELSE b
Min2(a, b) == IF a <= b THEN a ELSE b
Abs(x) == IF x < 0 THEN -x ELSE x

RECURSIVE SumSeq(_)
SumSeq(s) == IF s = <<>> THEN 0 ELSE Head(s) + SumSeq(Tail(s))

SeqToSet(s) == {s[i] : i \in DOMAIN s}
MapSeq(s, F(_)) == [i \in DOMAIN s |-> F(s[i])]

\* The value held by a non-null cell.
Val(c) == CHOOSE x \in c : TRUE

\* pandas Series.dropna(), then the values.
dropna(col) ==
    LET kept == SelectSeq(col, LAMBDA c : c # {})
    IN  [i \in DOMAIN kept |-> Val(kept[i])]

RECURSIVE Insert(_, _)
Insert(x, s) ==
    IF s = <<>> THEN <<x>>
    ELSE IF x <= Head(s) THEN <<x>> \o s
    ELSE <<Head(s)>> \o Insert(x, Tail(s))

RECURSIVE sort_values(_)
sort_values(s) == IF s = <<>> THEN <<>> ELSE Insert(Head(s), sort_values(Tail(s)))

----------------------------------------------------------------------------
(* A pandas DataFrame: ordered column names, the set of numeric columns    *)
(* and the cells of each column.                                           *)

Frame(cols, numeric, cells) == [columns |-> cols, numeric |-> numeric, cells |-> cells]

NRows(df) == IF df.columns = <<>> THEN 0 ELSE Len(df.cells[df.columns[1]])
ColumnSet(df) == SeqToSet(df.columns)

\* df.select_dtypes(include=[np.number]).columns
NumericCols(df) == SelectSeq(df.columns, LAMBDA c : c \in df.numeric)

\* DataFrame.empty: some axis has length 0
IsEmpty(cols, df) == cols = <<>> \/ NRows(df) = 0

----------------------------------------------------------------------------
(* Numbers that are not integers.  Num(p, k, r, d) is (p + k*sqrt(r))/d    *)
(* with d > 0 and r >= 0; NaN is float('nan').                             *)

Num(p, k, r, d) == [nan |-> FALSE, p |-> p, k |-> k, r |-> r, d |-> d]
NaN == [nan |-> TRUE, p |-> 0, k |-> 0, r |-> 0, d |-> 1]

\* a < k*sqrt(r), for integers a, k and r >= 0
LtSurd(a, k, r) ==
    IF k >= 0
    THEN a < 0 \/ a * a < k * k * r
    ELSE a < 0 /\ a * a > k * k * r

\* x < y for an integer x and a number y; a comparison with NaN is false
IntLt(x, y) == ~y.nan /\ LtSurd(x * y.d - y.p, y.k, y.r)
\* y < x
IntGt(x, y) == ~y.nan /\ LtSurd(y.p - x * y.d, -y.k, y.r)

\* x < y for two numbers over the same radicand
NumLt(x, y) ==
    /\ ~x.nan /\ ~y.nan
    /\ IF x.d = y.d
       THEN LtSurd(x.p - y.p, y.k - x.k, IF x.k # 0 THEN x.r ELSE y.r)
       ELSE LtSurd(x.p * y.d - y.p * x.d, y.k * x.d - x.k * y.d,
                   IF x.k # 0 THEN x.r ELSE y.r)

\* x = y for two numbers without a radical part
RatEq(x, y) == ~x.nan /\ ~y.nan /\ x.k = 0 /\ y.k = 0 /\ x.p * y.d = y.p * x.d

----------------------------------------------------------------------------
(* The result envelope.  An error text is a sequence of its parts, so that *)
(* "the error names the value" is "the value is one of the parts".         *)

Fail(err) == [success |-> FALSE, error |-> err]
Raised(exc) == [raised |-> exc]

IsRaise(r) == "raised" \in DOMAIN r
IsEnvelope(r) == "success" \in DOMAIN r /\ r.success \in BOOLEAN
Failed(r) == IsEnvelope(r) /\ ~r.success
Succeeded(r) == IsEnvelope(r) /\ r.success
ErrorIs(r, text) == Failed(r) /\ "error" \in DOMAIN r /\ r.error = <<text>>
ErrorNames(r, prefix, value) ==
    Failed(r) /\ "error" \in DOMAIN r /\ r.error = <<prefix, value>>

----------------------------------------------------------------------------
(* Python values that are not hashable (a list, a dict) raise TypeError    *)
(* when looked up in a dict or an Index.                                   *)

Unhashable == "[unhashable]"
Hashable(x) == x # Unhashable

----------------------------------------------------------------------------
(* EDATool (src/tools/eda_tool.py).                                        *)

\* a variant of quantile4 with interpolation='lower': no interpolation
quantile4_lower(values, q) ==
    LET sorted == sort_values(values)
        h == (Len(sorted) - 1) * q
    IN  4 * sorted[(h \div 4) + 1]

\* Series.quantile(q/4), times 4: linear interpolation between the two
\* order statistics around position (n-1)*q/4.
quantile4(values, q) ==
    LET sorted == sort_values(values)
        h == (Len(sorted) - 1) * q
        i == h \div 4
        r == h % 4
    IN  IF r = 0 THEN 4 * sorted[i + 1]
        ELSE 4 * sorted[i + 1] + r * (sorted[i + 2] - sorted[i + 1])

\* a variant of iqr_bounds with the two signs exchanged
iqr_bounds_signs(values) ==
    LET q1 == quantile4(values, 1)
        q3 == quantile4(values, 3)
        iqr == q3 - q1
    IN  [lower_bound |-> Num(2 * q1 + 3 * iqr, 0, 0, 8),
         upper_bound |-> Num(2 * q3 - 3 * iqr, 0, 0, 8)]

\* the 'iqr' branch: q1, q3, iqr, lower_bound, upper_bound, in eighths
iqr_bounds(values) ==
    LET q1 == quantile4(values, 1)
        q3 == quantile4(values, 3)
        iqr == q3 - q1
    IN  [lower_bound |-> Num(2 * q1 - 3 * iqr, 0, 0, 8),
         upper_bound |-> Num(2 * q3 + 3 * iqr, 0, 0, 8)]

\* data[(data < lower_bound) | (data > upper_bound)]
iqr_outliers(values, b) ==
    SelectSeq(values, LAMBDA v : IntLt(v, b.lower_bound) \/ IntGt(v, b.upper_bound))

\* n * sum(v^2) - sum(v)^2: n*(n-1) times the sample variance
SumSq(values) == SumSeq([i \in DOMAIN values |-> values[i] * values[i]])
VarNum(values) == Len(values) * SumSq(values) - SumSeq(values) * SumSeq(values)

\* Series.std() is NaN for fewer than two values
StdIsNaN(values) == Len(values) < 2

\* a variant of zscore_is_outlier without abs(): z_scores > 3
zscore_is_outlier_no_abs(v, values) ==
    LET n == Len(values)
        d == n * v - SumSeq(values)
    IN  /\ Len(values) >= 2
        /\ n * SumSeq([i \in DOMAIN values |-> values[i] * values[i]])
               - SumSeq(values) * SumSeq(values) > 0
        /\ d > 0
        /\ d * d * (n - 1) >
               9 * n * (n * SumSeq([i \in DOMAIN values |-> values[i] * values[i]])
                          - SumSeq(values) * SumSeq(values))

\* abs(z_scores) > 3 for z = (v - mean)/std: NaN (std NaN, or 0/0) is not > 3
zscore_is_outlier(v, values) ==
    LET n == Len(values)
        d == n * v - SumSeq(values)
    IN  /\ ~StdIsNaN(values)
        /\ VarNum(values) > 0
        /\ d * d * (n - 1) > 9 * n * VarNum(values)

zscore_outliers(values) == SelectSeq(values, LAMBDA v : zscore_is_outlier(v, values))

\* a variant of zscore_bounds at two standard deviations
zscore_bounds_two(values) ==
    LET n == Len(values)
        p == SumSeq(values) * (n - 1)
        r == VarNum(values) * n * (n - 1)
    IN  IF StdIsNaN(values)
        THEN [lower_bound |-> NaN, upper_bound |-> NaN]
        ELSE [lower_bound |-> Num(p, -2, r, n * (n - 1)),
              upper_bound |-> Num(p, 2, r, n * (n - 1))]

\* mean - 3*std and mean + 3*std
zscore_bounds(values) ==
    LET n == Len(values)
        p == SumSeq(values) * (n - 1)
        r == VarNum(values) * n * (n - 1)
    IN  IF StdIsNaN(values)
        THEN [lower_bound |-> NaN, upper_bound |-> NaN]
        ELSE [lower_bound |-> Num(p, -3, r, n * (n - 1)),
              upper_bound |-> Num(p, 3, r, n * (n - 1))]

outlier_envelope(column, method, values, outliers, b) ==
    IF Len(values) = 0
    THEN Fail(<<"division by zero">>)
    ELSE [success |-> TRUE, column |-> column, method |-> method,
          outlier_count |-> Len(outliers),
          lower_bound |-> b.lower_bound, upper_bound |-> b.upper_bound,
          message |-> "Found outliers"]

detect_outliers(data, column, method) ==
    IF data = None THEN Fail(<<"No data loaded">>)
    ELSE LET df == Get(data) IN
    IF ~Hashable(column) THEN Fail(<<"unhashable type">>)
    ELSE IF column \notin ColumnSet(df) THEN Fail(<<"Column not found: ", column>>)
    ELSE LET values == dropna(df.cells[column]) IN
    IF method = "iqr"
    THEN IF column \notin df.numeric THEN Fail(<<"TypeError">>)
         ELSE outlier_envelope(column, method, values,
                               iqr_outliers(values, iqr_bounds(values)), iqr_bounds(values))
    ELSE IF method = "zscore"
    THEN IF column \notin df.numeric THEN Fail(<<"TypeError">>)
         ELSE outlier_envelope(column, method, values,
                               zscore_outliers(values), zscore_bounds(values))
    ELSE Fail(<<"Unknown method: ", method>>)

\* load_data: the assignment comes first, then len(data) raises on None
load_data_envelope(data) ==
    IF data = None THEN Fail(<<"TypeError">>)
    ELSE [success |-> TRUE, rows |-> NRows(Get(data)),
          columns |-> Len(Get(data).columns),
          column_names |-> Get(data).columns,
          message |-> "Loaded dataset"]

NonNull(col) == SelectSeq(col, LAMBDA c : c # {})
NUnique(col) == Cardinality(SeqToSet(NonNull(col)))

get_basic_info(data) ==
    IF data = None THEN Fail(<<"No data loaded">>)
    ELSE LET df == Get(data) IN
         [success |-> TRUE,
          shape |-> [rows |-> NRows(df), columns |-> Len(df.columns)],
          columns |-> [i \in DOMAIN df.columns |->
                         [name |-> df.columns[i],
                          non_null |-> Len(NonNull(df.cells[df.columns[i]])),
                          unique_values |-> NUnique(df.cells[df.columns[i]])]],
          message |-> "Dataset shape"]

\* columns: the list asked for; <<>> is None or the empty list ("if columns")
statistics_columns(df, columns) ==
    IF columns # <<>>
    THEN SelectSeq(columns, LAMBDA c : c \in SeqToSet(NumericCols(df)))
    ELSE NumericCols(df)

get_statistics(data, columns) ==
    IF data = None THEN Fail(<<"No data loaded">>)
    ELSE LET df == Get(data)
             numeric_cols == statistics_columns(df, columns)
         IN  IF Unhashable \in SeqToSet(columns) THEN Fail(<<"unhashable type">>)
             ELSE IF numeric_cols = <<>> THEN Fail(<<"No numeric columns found">>)
             ELSE [success |-> TRUE,
                   statistics |-> [c \in SeqToSet(numeric_cols) |->
                                     [count |-> Len(NonNull(df.cells[c]))]],
                   columns_analyzed |-> numeric_cols,
                   message |-> "Computed statistics"]

\* Pearson correlation of two columns over the rows where both are non-null:
\* cov/sqrt(vv), NaN when a variance is 0.
pearson(df, c1, c2) ==
    LET x == df.cells[c1]
        y == df.cells[c2]
        rows == {i \in DOMAIN x : x[i] # {} /\ y[i] # {}}
        idx == SelectSeq([i \in DOMAIN x |-> i], LAMBDA i : i \in rows)
        xs == [k \in DOMAIN idx |-> Val(x[idx[k]])]
        ys == [k \in DOMAIN idx |-> Val(y[idx[k]])]
        n == Len(idx)
        sxy == SumSeq([k \in DOMAIN idx |-> xs[k] * ys[k]])
        cov == n * sxy - SumSeq(xs) * SumSeq(ys)
        vv == VarNum(xs) * VarNum(ys)
    IN  IF vv = 0 THEN [nan |-> TRUE, cov |-> 0, vv |-> 1]
        ELSE [nan |-> FALSE, cov |-> cov, vv |-> vv]

\* numeric_df.corr(method)
corr_matrix(df, cols) ==
    [c1 \in SeqToSet(cols) |-> [c2 \in SeqToSet(cols) |-> pearson(df, c1, c2)]]

\* abs(corr_val) > 0.7
is_high(c) == ~c.nan /\ 100 * c.cov * c.cov > 49 * c.vv

\* a variant of pair_selected that looks at both orders of a pair
pair_selected_both(i, j) == i # j

\* "if i < j": the pairs of the double loop that are looked at
pair_selected(i, j) == i < j

\* the double loop over enumerate(corr_matrix.columns), k counting its steps
RECURSIVE high_loop(_, _, _)
high_loop(cols, M, k) ==
    LET n == Len(cols)
        i == (k \div n) + 1
        j == (k % n) + 1
    IN  IF n = 0 \/ k >= n * n THEN <<>>
        ELSE (IF pair_selected(i, j) /\ is_high(M[cols[i]][cols[j]])
              THEN <<[column1 |-> cols[i], column2 |-> cols[j],
                      correlation |-> M[cols[i]][cols[j]]]>>
              ELSE <<>>) \o high_loop(cols, M, k + 1)

CorrMethods == {"pearson"}

get_correlations(data, method) ==
    IF data = None THEN Fail(<<"No data loaded">>)
    ELSE LET df == Get(data)
             cols == NumericCols(df)
         IN  IF IsEmpty(cols, df) THEN Fail(<<"No numeric columns for correlation">>)
             ELSE IF method \notin CorrMethods THEN Fail(<<"ValueError">>)
             ELSE [success |-> TRUE,
                   correlation_matrix |-> corr_matrix(df, cols),
                   high_correlations |-> high_loop(cols, corr_matrix(df, cols), 0),
                   method |-> method,
                   message |-> "Computed correlations"]

\* top_n: Some(n), or None for a value head() does not accept
get_value_counts(data, column, top_n) ==
    IF data = None THEN Fail(<<"No data loaded">>)
    ELSE LET df == Get(data) IN
         IF ~Hashable(column) THEN Fail(<<"unhashable type">>)
         ELSE IF column \notin ColumnSet(df) THEN Fail(<<"Column not found: ", column>>)
         ELSE IF top_n = None THEN Fail(<<"TypeError">>)
         ELSE [success |-> TRUE, column |-> column,
               shown |-> IF Get(top_n) >= 0
                         THEN Min2(Get(top_n), NUnique(df.cells[column]))
                         ELSE Max2(NUnique(df.cells[column]) + Get(top_n), 0),
               total_unique |-> NUnique(df.cells[column]),
               message |-> "Top values"]

get_data_quality_report(data) ==
    IF data = None THEN Fail(<<"No data loaded">>)
    ELSE LET df == Get(data) IN
         [success |-> TRUE, total_rows |-> NRows(df), total_columns |-> Len(df.columns),
          missing_cells |-> SumSeq([i \in DOMAIN df.columns |->
                               NRows(df) - Len(NonNull(df.cells[df.columns[i]]))]),
          message |-> "Data quality"]

get_full_eda_report(data) ==
    IF data = None THEN Fail(<<"No data loaded">>)
    ELSE [success |-> TRUE,
          basic_info |-> get_basic_info(data),
          statistics |-> get_statistics(data, <<>>),
          correlations |-> get_correlations(data, "pearson"),
          data_quality |-> get_data_quality_report(data),
          message |-> "Complete EDA report generated"]

----------------------------------------------------------------------------
(* SnowflakeTool and SQLServerTool (src/tools/snowflake_tool.py,           *)
(* src/tools/sqlserver_tool.py).  The two classes differ in the name of    *)
(* the first required field (account / host) and in their texts; `tool`    *)
(* is "Snowflake" or "SQL Server".  A configuration is its two required    *)
(* fields; a connection handle remembers the configuration that opened it. *)

Config(host, user) == [host |-> host, user |-> user]
EmptyConfig == Config("", "")
\* the value of a key the dict does not have; the dict with neither key is {}
Missing == "<missing>"
EmptyDict == Config(Missing, Missing)
\* not conn_config.get(key)
lacks(value) == value \in {"", Missing}

\* what the driver does when asked: no driver installed, refuses, connects
NetOutcomes == {"no_driver", "refused", "ok"}

\* connect(config) that gives up the handle when the driver refuses
db_connect_forgetful(tool, conn, stored, config, net) ==
    IF net = "no_driver"
    THEN [conn |-> conn, wire |-> <<"connect">>,
          res |-> [success |-> FALSE, error |-> <<"ImportError">>,
                   message |-> "Failed to connect"]]
    ELSE LET conn_config == IF config # None /\ Get(config) # EmptyDict
                            THEN Get(config) ELSE stored IN
         IF lacks(conn_config.host) \/ lacks(conn_config.user)
         THEN [conn |-> conn, wire |-> <<"connect">>,
               res |-> [success |-> FALSE,
                        error |-> <<"Missing required configuration", tool>>,
                        message |-> "Please provide connection details"]]
         ELSE IF net = "refused"
         THEN [conn |-> None, wire |-> <<"connect", "dial">>,
               res |-> [success |-> FALSE, error |-> <<"connection refused">>,
                        message |-> "Failed to connect"]]
         ELSE [conn |-> Some(conn_config), wire |-> <<"connect", "dial">>,
               res |-> [success |-> TRUE, message |-> "Connected"]]

\* connect(config) without its test of the required fields
db_connect_unvalidated(tool, conn, stored, config, net) ==
    IF net = "no_driver"
    THEN [conn |-> conn, wire |-> <<"connect">>,
          res |-> [success |-> FALSE, error |-> <<"ImportError">>,
                   message |-> "Failed to connect"]]
    ELSE LET conn_config == IF config # None /\ Get(config) # EmptyDict
                            THEN Get(config) ELSE stored IN
         IF net = "refused"
         THEN [conn |-> conn, wire |-> <<"connect", "dial">>,
               res |-> [success |-> FALSE, error |-> <<"connection refused">>,
                        message |-> "Failed to connect"]]
         ELSE [conn |-> Some(conn_config), wire |-> <<"connect", "dial">>,
               res |-> [success |-> TRUE, message |-> "Connected"]]

\* connect(config): returns the new handle, the envelope and what went over
\* the network: "connect" for the call itself, "dial" for the call of the
\* driver's connect.  The driver is imported first; a config that is None
\* or {} gives way to the stored one.
db_connect(tool, conn, stored, config, net) ==
    IF net = "no_driver"
    THEN [conn |-> conn, wire |-> <<"connect">>,
          res |-> [success |-> FALSE, error |-> <<"ImportError">>,
                   message |-> "Failed to connect"]]
    ELSE LET conn_config == IF config # None /\ Get(config) # EmptyDict
                            THEN Get(config) ELSE stored IN
         IF lacks(conn_config.host) \/ lacks(conn_config.user)
         THEN [conn |-> conn, wire |-> <<"connect">>,
               res |-> [success |-> FALSE,
                        error |-> <<"Missing required configuration", tool>>,
                        message |-> "Please provide connection details"]]
         ELSE IF net = "refused"
         THEN [conn |-> conn, wire |-> <<"connect", "dial">>,
               res |-> [success |-> FALSE, error |-> <<"connection refused">>,
                        message |-> "Failed to connect"]]
         ELSE [conn |-> Some(conn_config), wire |-> <<"connect", "dial">>,
               res |-> [success |-> TRUE, message |-> "Connected"]]

\* disconnect(): close() may raise, and then the handle is kept
db_disconnect(conn, closes) ==
    IF conn # None /\ ~closes
    THEN [conn |-> conn, wire |-> <<"close">>, res |-> Fail(<<"close failed">>)]
    ELSE [conn |-> None, wire |-> IF conn # None THEN <<"close">> ELSE <<>>,
          res |-> [success |-> TRUE, message |-> "Disconnected"]]

\* execute_query(query) whose connect is given settings of its own
db_execute_query_overridden(tool, conn, stored, net, rows) ==
    LET c == IF conn = None
             THEN db_connect(tool, conn, stored, Some(Config("g", "u")), net)
             ELSE [conn |-> conn, wire |-> <<>>,
                   res |-> [success |-> TRUE, message |-> "open"]]
    IN  IF ~c.res.success THEN c
        ELSE IF rows = None
        THEN [conn |-> c.conn, wire |-> c.wire \o <<"execute">>,
              res |-> [success |-> FALSE, error |-> <<"query error">>,
                       message |-> "Query execution failed"]]
        ELSE [conn |-> c.conn, wire |-> c.wire \o <<"execute">>,
              res |-> [success |-> TRUE, data |-> Get(rows),
                       row_count |-> NRows(Get(rows)),
                       columns |-> Get(rows).columns,
                       message |-> "Query executed successfully"]]

\* execute_query(query) that goes on to the query after a failed connect
db_execute_query_regardless(tool, conn, stored, net, rows) ==
    LET c == IF conn = None THEN db_connect(tool, conn, stored, None, net)
             ELSE [conn |-> conn, wire |-> <<>>,
                   res |-> [success |-> TRUE, message |-> "open"]]
    IN  [conn |-> c.conn, wire |-> c.wire \o <<"execute">>,
         res |-> [success |-> FALSE, error |-> <<"query error">>,
                  message |-> "Query execution failed"]]

\* execute_query(query): rows is the table the server answers with, or
\* None when cursor()/execute()/fetchall() raises; "execute" goes over the
\* network when the query is sent
db_execute_query(tool, conn, stored, net, rows) ==
    LET c == IF conn = None THEN db_connect(tool, conn, stored, None, net)
             ELSE [conn |-> conn, wire |-> <<>>,
                   res |-> [success |-> TRUE, message |-> "open"]]
    IN  IF ~c.res.success THEN c
        ELSE IF rows = None
        THEN [conn |-> c.conn, wire |-> c.wire \o <<"execute">>,
              res |-> [success |-> FALSE, error |-> <<"query error">>,
                       message |-> "Query execution failed"]]
        ELSE [conn |-> c.conn, wire |-> c.wire \o <<"execute">>,
              res |-> [success |-> TRUE, data |-> Get(rows),
                       row_count |-> NRows(Get(rows)),
                       columns |-> Get(rows).columns,
                       message |-> "Query executed successfully"]]

\* run(action) for an action that is not a key of the dispatch table; the
\* membership test hashes the action
run_unknown(action) ==
    IF ~Hashable(action) THEN Raised("TypeError")
    ELSE Fail(<<"Unknown action: ", action>>)

----------------------------------------------------------------------------
(* A Python dict with string keys, in insertion order: a sequence of       *)
(* [key, value] entries with distinct keys.                                *)

DictKeys(d) == {d[i].key : i \in DOMAIN d}
DictGet(d, k) == (CHOOSE e \in SeqToSet(d) : e.key = k).value

\* d[k] = v: a new key goes last, an old key keeps its place
DictPut(d, k, v) ==
    IF k \in DictKeys(d)
    THEN [i \in DOMAIN d |-> IF d[i].key = k THEN [key |-> k, value |-> v] ELSE d[i]]
    ELSE Append(d, [key |-> k, value |-> v])

----------------------------------------------------------------------------
(* PDFLoaderTool (src/tools/pdf_loader_tool.py).                           *)

\* os.path.join(dir, name) and os.path.basename of such a path
Join(dir, name) == [dir |-> dir, name |-> name]
Basename(path) == path.name

\* what the file system and PyPDF2 do with a path: no such file, a file
\* PdfReader cannot read, or a readable file
FileOutcomes == {"missing", "corrupt", "ok"}

\* a variant of load_pdf that registers a file it could not read
load_pdf_registers_unread(docs, file_path, file, text) ==
    IF file = "missing"
    THEN [docs |-> docs, res |-> Fail(<<"File not found: ", file_path>>)]
    ELSE IF file = "corrupt"
    THEN [docs |-> DictPut(docs, Basename(file_path), ""),
          res |-> [success |-> FALSE, error |-> <<"PdfReadError">>,
                   message |-> "Failed to load PDF"]]
    ELSE [docs |-> DictPut(docs, Basename(file_path), text),
          res |-> [success |-> TRUE, filename |-> Basename(file_path),
                   content |-> text, message |-> "Successfully loaded"]]

\* load_pdf(file_path): the new mapping and the envelope
load_pdf(docs, file_path, file, text) ==
    IF file = "missing"
    THEN [docs |-> docs, res |-> Fail(<<"File not found: ", file_path>>)]
    ELSE IF file = "corrupt"
    THEN [docs |-> docs,
          res |-> [success |-> FALSE, error |-> <<"PdfReadError">>,
                   message |-> "Failed to load PDF"]]
    ELSE [docs |-> DictPut(docs, Basename(file_path), text),
          res |-> [success |-> TRUE, filename |-> Basename(file_path),
                   content |-> text, message |-> "Successfully loaded"]]

\* the loop of load_multiple_pdfs over items [path, file, text]
RECURSIVE load_each(_, _)
load_each(docs, items) ==
    IF items = <<>> THEN [docs |-> docs, results |-> <<>>]
    ELSE LET one == load_pdf(docs, Head(items).path, Head(items).file, Head(items).text)
             rest == load_each(one.docs, Tail(items))
         IN  [docs |-> rest.docs,
              results |-> <<[file |-> Head(items).path,
                             success |-> one.res.success]>> \o rest.results]

\* load_multiple_pdfs(file_paths); iterable is false for a file_paths that
\* cannot be iterated (None)
load_multiple_pdfs(docs, iterable, items) ==
    IF ~iterable THEN [docs |-> docs, res |-> Raised("TypeError")]
    ELSE LET done == load_each(docs, items)
             failed == Len(SelectSeq(done.results, LAMBDA r : ~r.success))
         IN  [docs |-> done.docs,
              res |-> [success |-> failed = 0, total |-> Len(items),
                       successful |-> Len(items) - failed, failed |-> failed,
                       results |-> done.results, message |-> "Loaded PDFs"]]

get_loaded_documents(docs) ==
    [success |-> TRUE, documents |-> [i \in DOMAIN docs |-> docs[i].key],
     count |-> Len(docs), message |-> "documents loaded"]

get_document_content(docs, filename) ==
    IF ~Hashable(filename) THEN Raised("TypeError")
    ELSE IF filename \notin DictKeys(docs)
    THEN Fail(<<"Document not loaded: ", filename>>)
    ELSE [success |-> TRUE, filename |-> filename, content |-> DictGet(docs, filename)]

\* a variant of get_combined_context that combines every loaded document
get_combined_context_all(docs, filenames) ==
    IF docs = <<>>
    THEN Fail(<<"No documents available to combine">>)
    ELSE [success |-> TRUE,
          documents_included |-> [i \in DOMAIN docs |-> docs[i].key],
          content |-> [i \in DOMAIN docs |->
                         [header |-> docs[i].key, text |-> docs[i].value]],
          message |-> "Combined documents"]

\* filenames: the list asked for; <<>> is None or the empty list
get_combined_context(docs, filenames) ==
    LET docs_to_combine ==
            IF filenames # <<>>
            THEN SelectSeq(docs, LAMBDA e : e.key \in SeqToSet(filenames))
            ELSE docs
    IN  IF docs_to_combine = <<>>
        THEN Fail(<<"No documents available to combine">>)
        ELSE [success |-> TRUE,
              documents_included |-> [i \in DOMAIN docs_to_combine |-> docs_to_combine[i].key],
              content |-> [i \in DOMAIN docs_to_combine |->
                             [header |-> docs_to_combine[i].key,
                              text |-> docs_to_combine[i].value]],
              message |-> "Combined documents"]

clear_documents(docs) ==
    [docs |-> <<>>, res |-> [success |-> TRUE, message |-> "Cleared documents"]]

\* save_uploaded_file: file_storage.save either writes the file or raises
save_uploaded_file(filename, saved) ==
    IF ~saved THEN Fail(<<"OSError">>)
    ELSE [success |-> TRUE, file_path |-> filename, message |-> "File saved"]

----------------------------------------------------------------------------
(* ChartTool (src/tools/chart_tool.py).                                    *)

\* the chart methods that hand named columns to plotly
PlotTypes == {"bar", "line", "scatter", "histogram", "box", "pie",
              "distribution", "pair_plot"}
ChartTypes == PlotTypes \cup {"heatmap"}

chart_envelope(chart_type) ==
    [success |-> TRUE, chart_type |-> chart_type, filepath |-> "static/charts",
     chart_json |-> "json", message |-> "Chart created"]

\* bar_chart, line_chart, scatter_plot, histogram, box_plot, pie_chart,
\* distribution_plot, pair_plot: `columns` are the column names the call
\* refers to, `lib` whether plotly and the disk go along
plot(chart_type, data, columns, lib) ==
    IF data = None THEN Fail(<<"No data loaded">>)
    ELSE IF ~lib \/ ~(columns \subseteq ColumnSet(Get(data)))
    THEN Fail(<<"plotly error">>)
    ELSE chart_envelope(chart_type)

heatmap(data, lib) ==
    IF data = None THEN Fail(<<"No data loaded">>)
    ELSE IF IsEmpty(NumericCols(Get(data)), Get(data))
    THEN Fail(<<"No numeric columns for heatmap">>)
    ELSE IF ~lib THEN Fail(<<"plotly error">>)
    ELSE chart_envelope("heatmap")

chart(chart_type, data, columns, lib) ==
    IF chart_type = "heatmap" THEN heatmap(data, lib)
    ELSE plot(chart_type, data, columns, lib)

\* the keys of custom_chart's chart_methods
CustomTypes == {"bar", "line", "scatter", "histogram", "box", "heatmap", "pie"}

custom_chart(data, chart_type, columns, lib) ==
    IF data = None THEN Fail(<<"No data loaded">>)
    ELSE IF ~Hashable(chart_type) THEN Fail(<<"unhashable type">>)
    ELSE IF chart_type \notin CustomTypes
    THEN Fail(<<"Unknown chart type: ", chart_type>>)
    ELSE chart(chart_type, data, columns, lib)

----------------------------------------------------------------------------
(* Text as the routing layer handles it: a string is looked at through     *)
(* its characters.                                                         *)

NameCatalog == {"", "t", "csv", "t.csv", "T.CSV", ".csv", "t.txt", "d1.pdf", "t.xlsx",
                "out.csv", "a b.csv", "a_b.csv",
                "pdf", "xlsx", "xls", "json", ".xlsx", ".xls", ".json",
                "2", "-1", "abc",
                "s1", "Data", "Statistics", "Overview",
                "aaaaaaaaaaaaaaaaaaaaaaaaaaaaaaab", "aaaaaaaaaaaaaaaaaaaaaaaaaaaaaaac"}

Chars(name) ==
    CASE name = "" -> <<>>
      [] name = "t" -> <<"t">>
      [] name = "csv" -> <<"c", "s", "v">>
      [] name = "out.csv" -> <<"o", "u", "t", ".", "c", "s", "v">>
      [] name = "a b.csv" -> <<"a", " ", "b", ".", "c", "s", "v">>
      [] name = "a_b.csv" -> <<"a", "_", "b", ".", "c", "s", "v">>
      [] name = "t.csv" -> <<"t", ".", "c", "s", "v">>
      [] name = "T.CSV" -> <<"T", ".", "C", "S", "V">>
      [] name = ".csv" -> <<".", "c", "s", "v">>
      [] name = "t.txt" -> <<"t", ".", "t", "x", "t">>
      [] name = "t.xlsx" -> <<"t", ".", "x", "l", "s", "x">>
      [] name = "d1.pdf" -> <<"d", "1", ".", "p", "d", "f">>
      [] name = "pdf" -> <<"p", "d", "f">>
      [] name = "xlsx" -> <<"x", "l", "s", "x">>
      [] name = "xls" -> <<"x", "l", "s">>
      [] name = "json" -> <<"j", "s", "o", "n">>
      [] name = ".xlsx" -> <<".", "x", "l", "s", "x">>
      [] name = ".xls" -> <<".", "x", "l", "s">>
      [] name = ".json" -> <<".", "j", "s", "o", "n">>
      [] name = "2" -> <<"2">>
      [] name = "-1" -> <<"-", "1">>
      [] name = "abc" -> <<"a", "b", "c">>
      [] name = "s1" -> <<"s", "1">>
      [] name = "Data" -> <<"D", "a", "t", "a">>
      [] name = "Statistics" -> <<"S", "t", "a", "t", "i", "s", "t", "i", "c", "s">>
      [] name = "Overview" -> <<"O", "v", "e", "r", "v", "i", "e", "w">>
      [] name = "aaaaaaaaaaaaaaaaaaaaaaaaaaaaaaab" -> [i \in 1..31 |-> "a"] \o <<"b">>
      [] name = "aaaaaaaaaaaaaaaaaaaaaaaaaaaaaaac" -> [i \in 1..31 |-> "a"] \o <<"c">>

Str(chars) == CHOOSE name \in NameCatalog : Chars(name) = chars

\* str.lower, one character
Lower(ch) ==
    CASE ch = "T" -> "t" [] ch = "C" -> "c" [] ch = "S" -> "s" [] ch = "V" -> "v"
      [] OTHER -> ch

\* filename.rsplit('.', 1)[1]: what follows the last dot
rsplit_ext(chars) ==
    LET last == CHOOSE i \in DOMAIN chars :
                    chars[i] = "." /\ \A j \in DOMAIN chars : chars[j] = "." => j <= i
    IN  SubSeq(chars, last + 1, Len(chars))

allowed_file(filename, allowed_extensions) ==
    /\ "." \in SeqToSet(Chars(filename))
    /\ \E ext \in allowed_extensions :
           Chars(ext) = MapSeq(rsplit_ext(Chars(filename)), Lower)

\* str.strip("._")
RECURSIVE strip(_)
strip(chars) ==
    IF chars = <<>> THEN <<>>
    ELSE IF Head(chars) \in {".", "_"} THEN strip(Tail(chars))
    ELSE IF chars[Len(chars)] \in {".", "_"} THEN strip(SubSeq(chars, 1, Len(chars) - 1))
    ELSE chars

\* werkzeug's secure_filename: path separators and blanks become "_", then the name is
\* stripped of leading and trailing dots and underscores
secure_chars(chars) ==
    strip(MapSeq(chars, LAMBDA ch : IF ch \in {"/", " "} THEN "_" ELSE ch))

secure_filename(filename) == Str(secure_chars(Chars(filename)))

endswith(name, suffix) ==
    LET n == Chars(name)
        x == Chars(suffix)
    IN  Len(x) <= Len(n) /\ SubSeq(n, Len(n) - Len(x) + 1, Len(n)) = x

Digits == <<"0", "1", "2", "3", "4", "5", "6", "7", "8", "9">>
DigitVal(ch) == (CHOOSE i \in DOMAIN Digits : Digits[i] = ch) - 1

RECURSIVE Decimal(_)
Decimal(chars) ==
    IF chars = <<>> THEN 0
    ELSE 10 * Decimal(SubSeq(chars, 1, Len(chars) - 1)) + DigitVal(chars[Len(chars)])

\* int(text): None when it raises ValueError
int(text) ==
    LET chars == Chars(text)
        body == IF chars # <<>> /\ Head(chars) = "-" THEN Tail(chars) ELSE chars
    IN  IF body = <<>> \/ ~(SeqToSet(body) \subseteq SeqToSet(Digits)) THEN None
        ELSE IF body = chars THEN Some(Decimal(body)) ELSE Some(-Decimal(body))

----------------------------------------------------------------------------
(* The disk: the files under the uploads and reports directories, each a   *)
(* directory, a name (its characters) and what the file holds.  A file     *)
(* holds a table written as CSV text or bytes of some other format.        *)

\* files the disk has room for; writing one more raises OSError
MaxFiles == 2
\* seconds the clock runs for
MaxTime == 2

Bytes(fmt) == [fmt |-> fmt, table |-> None]

File(dir, name, content) == [dir |-> dir, name |-> name, content |-> content]

\* os.path.exists(os.path.join(dir, name))
exists(files, dir, name) == \E f \in files : f.dir = dir /\ f.name = name

has_room(files, dir, name) == exists(files, dir, name) \/ Cardinality(files) < MaxFiles

\* open(path, 'w'): a file of that name is replaced
write(files, dir, name, content) ==
    {f \in files : ~(f.dir = dir /\ f.name = name)} \cup {File(dir, name, content)}

\* os.listdir(dir)
listdir(files, dir) == {f.name : f \in {g \in files : g.dir = dir}}
\* what the file of that name holds
file_content(files, dir, name) == (CHOOSE f \in files : f.dir = dir /\ f.name = name).content

\* a workbook of one sheet holding the table
to_xlsx(df) == [fmt |-> "xlsx", table |-> Some(df)]
\* DataFrame.to_csv(path, index=False): the header line and one line a row
to_csv(df) == [fmt |-> "csv", table |-> Some(df)]

\* the names pd.read_csv gives the columns of a header line: an empty
\* field is named after its place
UnnamedColumns == <<"Unnamed: 0", "Unnamed: 1", "Unnamed: 2">>
header(columns) ==
    [i \in DOMAIN columns |-> IF columns[i] = "" THEN UnnamedColumns[i] ELSE columns[i]]

\* pd.read_csv(path): bytes that are no text and a file without a header
\* line raise (None); a column without a value comes back as float64
read_csv(content) ==
    IF content.fmt # "csv" THEN None
    ELSE LET df == Get(content.table)
             names == header(df.columns)
             written_as(c) == df.columns[CHOOSE i \in DOMAIN names : names[i] = c]
         IN
         IF df.columns = <<>> THEN None
         ELSE Some(Frame(names,
                         {c \in SeqToSet(names) :
                             \/ written_as(c) \in df.numeric
                             \/ \A i \in 1..NRows(df) : df.cells[written_as(c)][i] = {}},
                         [c \in SeqToSet(names) |-> df.cells[written_as(c)]]))

\* pd.read_excel(path), pd.read_json(path)
read_as(fmt, content) == IF content.fmt = fmt THEN content.table ELSE None

----------------------------------------------------------------------------
(* ReportTool (src/tools/report_tool.py).  A file name is the sequence of  *)
(* its characters; `t` is the clock, in seconds since it was started, and  *)
(* `lib` says whether the report library and the disk go along with the    *)
(* write.                                                                  *)

\* ChartTool.load_data and ReportTool.load_data: the assignment comes
\* first, then len(data) raises on None
load_data_message(data) ==
    IF data = None THEN Fail(<<"TypeError">>)
    ELSE [success |-> TRUE, message |-> "Loaded data"]

\* a variant of add_content that starts the mapping anew
add_content_anew(content, section, value) ==
    IF ~Hashable(section) THEN [content |-> content, res |-> Raised("TypeError")]
    ELSE [content |-> DictPut(<<>>, section, value),
          res |-> [success |-> TRUE, message |-> "Added content to section"]]

add_content(content, section, value) ==
    IF ~Hashable(section) THEN [content |-> content, res |-> Raised("TypeError")]
    ELSE [content |-> DictPut(content, section, value),
          res |-> [success |-> TRUE, message |-> "Added content to section"]]

\* the second of the day at which the clock is started, on 1 January 2024:
\* the last second of a minute
StartSecond == 59
TwoDigits(n) == <<Digits[(n \div 10) + 1], Digits[(n % 10) + 1]>>

\* a timestamp that stops at the minute
strftime_minutes(t) ==
    LET s == StartSecond + t IN
    <<"2", "0", "2", "4", "0", "1">> \o TwoDigits(1 + (s \div 86400)) \o <<"_">>
        \o TwoDigits((s \div 3600) % 24) \o TwoDigits((s \div 60) % 60)

\* datetime.now().strftime("%Y%m%d_%H%M%S") at clock t
strftime(t) ==
    LET s == StartSecond + t IN
    <<"2", "0", "2", "4", "0", "1">> \o TwoDigits(1 + (s \div 86400)) \o <<"_">>
        \o TwoDigits((s \div 3600) % 24) \o TwoDigits((s \div 60) % 60)
        \o TwoDigits(s % 60)

ReportPrefix == <<"r", "e", "p", "o", "r", "t", "_">>
ExportPrefix == <<"d", "a", "t", "a", "_", "e", "x", "p", "o", "r", "t", "_">>
SummaryPrefix == <<"s", "u", "m", "m", "a", "r", "y", "_">> \o ReportPrefix
PdfExt == <<".", "p", "d", "f">>
XlsxExt == <<".", "x", "l", "s", "x">>
CsvExt == <<".", "c", "s", "v">>
JsonExt == <<".", "j", "s", "o", "n">>
TxtExt == <<".", "t", "x", "t">>

\* f"{prefix}{timestamp}{ext}"
Stamped(prefix, t, ext) == prefix \o strftime(t) \o ext

\* filename: None, or the name asked for; `if not filename` takes None and
\* the empty string alike
export_name(filename, t, ext) ==
    IF filename = None \/ Get(filename) = "" THEN Stamped(ExportPrefix, t, ext)
    ELSE Chars(Get(filename))

generated(filename, text) ==
    [success |-> TRUE, filepath |-> Join("reports", filename),
     filename |-> filename, message |-> text]

generate_pdf_report(data, lib, t) ==
    IF ~lib THEN Fail(<<"reportlab error">>)
    ELSE generated(Stamped(ReportPrefix, t, PdfExt), "PDF report generated")

generate_excel_report(data, lib, t) ==
    IF data = None THEN Fail(<<"No data loaded">>)
    ELSE IF ~lib THEN Fail(<<"openpyxl error">>)
    ELSE generated(Stamped(ReportPrefix, t, XlsxExt), "Excel report generated")

\* the longest sheet name the report gives
SheetNameLimit == 31
\* chars[:n]
Truncate(chars, n) == SubSeq(chars, 1, IF Len(chars) < n THEN Len(chars) ELSE n)

\* the values of a content section: free text, a record, a table
Text(v) == [type |-> "str", value |-> v]
Row(v) == [type |-> "dict", value |-> v]
Table(v) == [type |-> "DataFrame", value |-> v]

\* what is written on a sheet: a part of the dataset, or a content section
OfDataset(part) == [from |-> "dataset", of |-> part]
OfSection(section) == [from |-> "section", of |-> section]

\* DataFrame.to_excel(writer, sheet_name=...) on a new workbook: the sheet
\* of that name is written on when the writer has it, and created otherwise
to_excel(book, sheet_name, source) ==
    IF \E i \in DOMAIN book : book[i].name = sheet_name
    THEN [i \in DOMAIN book |->
            IF book[i].name = sheet_name
            THEN [book[i] EXCEPT !.writes = Append(@, source)] ELSE book[i]]
    ELSE Append(book, [name |-> sheet_name, writes |-> <<source>>])

\* the loop over report_content: strings get no sheet
RECURSIVE content_sheets(_, _)
content_sheets(book, content) ==
    IF content = <<>> THEN book
    ELSE LET section == Head(content).key
             value == Head(content).value
         IN  content_sheets(
                 IF value.type \in {"DataFrame", "dict"}
                 THEN to_excel(book, Truncate(Chars(section), SheetNameLimit),
                               OfSection(section))
                 ELSE book,
                 Tail(content))

\* the sheets of the workbook, with include_stats left at True
workbook(df, content) ==
    LET data_sheet == to_excel(<<>>, Chars("Data"), OfDataset("Data"))
        stats_sheet == IF IsEmpty(NumericCols(df), df) THEN data_sheet
                       ELSE to_excel(data_sheet, Chars("Statistics"),
                                     OfDataset("Statistics"))
        overview == to_excel(stats_sheet, Chars("Overview"), OfDataset("Overview"))
    IN  content_sheets(overview, content)

generate_csv_export(data, filename, lib, t) ==
    IF data = None THEN Fail(<<"No data loaded">>)
    ELSE IF ~lib THEN Fail(<<"OSError">>)
    ELSE [success |-> TRUE,
          filepath |-> Join("reports", export_name(filename, t, CsvExt)),
          filename |-> export_name(filename, t, CsvExt),
          rows |-> NRows(Get(data)), message |-> "CSV export generated"]

\* the values DataFrame.to_json takes for orient
Orients == {"records", "split", "index", "columns", "values", "table"}

generate_json_export(data, filename, orient, lib, t) ==
    IF data = None THEN Fail(<<"No data loaded">>)
    ELSE IF ~lib \/ orient \notin Orients THEN Fail(<<"to_json error">>)
    ELSE [success |-> TRUE,
          filepath |-> Join("reports", export_name(filename, t, JsonExt)),
          filename |-> export_name(filename, t, JsonExt),
          rows |-> NRows(Get(data)), message |-> "JSON export generated"]

generate_summary_report(lib, t) ==
    IF ~lib THEN Fail(<<"OSError">>)
    ELSE generated(Stamped(SummaryPrefix, t, TxtExt), "Summary report generated")

\* the file a generation leaves in the reports directory: the `Data` sheet
\* of the workbook and the exports hold the table
written(files, res, content) ==
    IF res.success THEN write(files, "reports", res.filename, content) ELSE files

clear_content ==
    [content |-> <<>>, res |-> [success |-> TRUE, message |-> "Report content cleared"]]

\* the orders in which os.listdir may give the names
Orderings(names) ==
    {order \in [1..Cardinality(names) -> names] :
        \A i, j \in DOMAIN order : order[i] = order[j] => i = j}

\* files: what os.listdir finds in the output directory, None when it raises
list_reports(files) ==
    IF files = None THEN Fail(<<"OSError">>)
    ELSE [success |-> TRUE,
          reports |-> [i \in DOMAIN Get(files) |->
                          [filename |-> Get(files)[i],
                           filepath |-> Join("reports", Get(files)[i])]],
          count |-> Len(Get(files)),
          message |-> "Found reports"]

----------------------------------------------------------------------------
(* What the routes do to a table before it goes into the response.         *)

head_all(df, n) == df

\* DataFrame.head(n)
head(df, n) ==
    Frame(df.columns, df.numeric,
          [c \in ColumnSet(df) |-> SubSeq(df.cells[c], 1, Min2(n, NRows(df)))])

\* DataFrame.to_dict('records')
to_records(df) == [i \in 1..NRows(df) |-> [c \in ColumnSet(df) |-> df.cells[c][i]]]

\* a datetime.time, as read_excel gives for a cell formatted as a time of
\* day: a value the JSON provider of jsonify has no encoding for
TimeOfDay == "<12:00:00>"
\* whether jsonify encodes the records of the table; it raises TypeError
\* otherwise.  The columns of numbers hold numbers alone.
jsonable(df) ==
    \A c \in ColumnSet(df) \ df.numeric :
        \A i \in 1..NRows(df) : df.cells[c][i] # {TimeOfDay}

\* the rows a response shows
PreviewLimit == 100
\* top_n of /api/eda/value_counts when the query string has none
DefaultTopN == 10

----------------------------------------------------------------------------
(* Inputs. *)

NoCall == [op |-> "none"]
NoResult == [idle |-> TRUE]

\* sequences over S of length at most n
SeqsUpTo(S, n) == UNION {[1..k -> S] : k \in 0..n}

Cells == {{}} \cup {{v} : v \in 0..MaxVal}

\* the columns outlier detection is run on: every short column, and every
\* short column followed by a run of one repeated value
ColumnInputs ==
    {prefix \o [i \in 1..k |-> c] :
        prefix \in SeqsUpTo(Cells, MaxLen), k \in 0..MaxPad, c \in Cells \ {{}}}

OneColumnFrame(col) == Frame(<<"a">>, {"a"}, [c \in {"a"} |-> col])

ColumnArgs == {"a", "c", "zz", Unhashable}
MethodArgs == {"iqr", "zscore", "mad"}

\* the table a query or an upload brings: two numeric columns, one of them
\* with a missing cell, and a text column
T1 == Frame(<<"a", "b", "c">>, {"a", "b"},
            [a |-> <<{1}, {2}, {4}>>, b |-> <<{2}, {}, {8}>>,
             c |-> <<{"x"}, {"y"}, {"x"}>>])
Tables == {T1}

\* the `data` argument of load_data
DataArgs == {None} \cup {Some(df) : df \in Tables}

\* lists of column names
ColumnLists == {<<>>, <<"a">>, <<"zz">>, <<"c">>, <<"a", "zz">>, <<Unhashable>>}
TopNArgs == {None, Some(1)}

\* the column names a chart call refers to, and whether plotly and the disk
\* go along: a call that draws, and one that names a column that is not there
ChartInputs == {[columns |-> {"a", "b"}, lib |-> TRUE],
                [columns |-> {"a", "zz"}, lib |-> FALSE]}
ChartTypeArgs == ChartTypes \cup {"bogus", Unhashable}
\* the `type` of a custom_chart configuration: known, known to the route
\* alone, unknown, not hashable
CustomTypeArgs == {"bar", "heatmap", "distribution", "bogus", Unhashable}

ActionArgs == {"bogus", Unhashable}
\* sections: the name of a built-in sheet, two names that differ in their
\* 32nd character, and a key no dict takes
SectionArgs == {"Data", "aaaaaaaaaaaaaaaaaaaaaaaaaaaaaaab",
                "aaaaaaaaaaaaaaaaaaaaaaaaaaaaaaac", Unhashable}
ContentArgs == {Text("x"), Table("f")}
\* the sections a wrapper is given before it is left alone
MaxSections == 2
\* what the JSON body of /api/report/add_content holds
RouteSections == {"s1", Unhashable}
RouteContents == {Text("x"), Row("r")}
\* the filename an export is asked for: absent, empty, plain, with a blank
ExportNames == {None, Some(""), Some("a b.csv")}
OrientArgs == {"records", "bogus"}

\* PDF files: two places holding a file of the same name, and another file
PathArgs == {Join("uploads", "d1.pdf"), Join("other", "d1.pdf"), Join("uploads", "d2.pdf")}
Texts == {"t1", "t2"}
MaxPaths == 2
\* files that are there and one that is not
PathItems == {[path |-> Join("uploads", "d1.pdf"), file |-> "ok", text |-> "t1"],
              [path |-> Join("uploads", "d2.pdf"), file |-> "ok", text |-> "t2"],
              [path |-> Join("other", "d1.pdf"), file |-> "missing", text |-> "t1"]}
\* the file_paths argument: None, or a list of paths with what is at each
PathListArgs == {None} \cup {Some(items) : items \in SeqsUpTo(PathItems, MaxPaths)}
DocNameArgs == {"d1.pdf", "zz.pdf", Unhashable}
DocNameLists == {<<>>, <<"d1.pdf">>, <<"zz.pdf">>, <<"d2.pdf", "d1.pdf">>, <<"d1.pdf", "d1.pdf">>}
UploadNames == {"d1.pdf", "t.csv"}

\* connection settings: none, complete (those of the environment of
\* Snowflake, and others), without a user, or the empty dict
ConfigArgs == {None, Some(Config("h", "u")), Some(Config("g", "u")),
               Some(Config("h", "")), Some(EmptyDict)}
\* the settings the process environment holds when the wrappers are built:
\* those of Snowflake are set, those of SQL Server are not
SnowflakeEnvironment == Config("h", "u")
SQLServerEnvironment == EmptyConfig
\* rows of a table longer than a preview
BigRows == 101
\* a table of one text column, longer than a preview
Big == Frame(<<"c">>, {}, [c |-> [i \in 1..BigRows |-> {"x"}]])
\* the answer to a query whose one column has no name (SELECT COUNT(*))
Unnamed == Frame(<<"">>, {""}, [c \in {""} |-> <<{3}>>])
\* a sheet of one column of times of day
Clock == Frame(<<"t">>, {}, [t |-> <<{TimeOfDay}>>])
\* the tables a server or a client's file brings
RouteTables == {T1, Big, Unnamed}
QueryRows == {None} \cup {Some(df) : df \in RouteTables}
\* what the driver and the server do with a query: rows come back only over
\* a connection
QueryOutcomes == {o \in [net : NetOutcomes, rows : QueryRows] :
                     o.net # "ok" => o.rows = None}

\* what the routes read from a request
RouteConfigs == {Config("h", "u"), Config("h", ""), EmptyDict}
FileNameArgs == {"", "t", "t.csv", "T.CSV", ".csv", "d1.pdf", "t.xlsx"}
\* an upload request: whether it has a `file` part, the part's filename and
\* whether file.save manages to write it
UploadArgs ==
    {u \in [has_file : BOOLEAN, filename : FileNameArgs, saved : BOOLEAN] :
        ~u.has_file => (u.filename = "" /\ u.saved)}

\* what an uploaded data file holds: a table as CSV text, or a workbook
UploadContents == {to_csv(T1), to_csv(Big), to_xlsx(Clock)}

\* query-string values are text
RouteColumnLists == {<<>>, <<"a">>, <<"zz">>, <<"a", "zz">>}
RouteColumns == {"a", "c", "zz"}
TopNTexts == {None, Some("2"), Some("-1"), Some("abc")}
DownloadNames == {"t.csv", "t.txt"}
\* the status of the reply to a download of a missing file
NotFound == 404

----------------------------------------------------------------------------
(* Calls of EDATool's public methods. *)

EDATool_detect_outliers ==
    \E column \in ColumnArgs, method \in MethodArgs :
        /\ call' = [op |-> "EDATool.detect_outliers", column |-> column, method |-> method]
        /\ result' = detect_outliers(eda_data, column, method)
        /\ UNCHANGED <<dataVars, toolVars, envVars>>
        /\ wire' = <<>>

EDATool_get_correlations ==
    \E method \in {"pearson", "bogus"} :
        /\ call' = [op |-> "EDATool.get_correlations", method |-> method]
        /\ result' = get_correlations(eda_data, method)
        /\ UNCHANGED <<dataVars, toolVars, envVars>>
        /\ wire' = <<>>

EDATool_load_data ==
    \E data \in DataArgs :
        /\ eda_data' = data
        /\ call' = [op |-> "EDATool.load_data", data |-> data]
        /\ result' = load_data_envelope(data)
        /\ UNCHANGED <<current_dataframe, chart_data, report_data, toolVars, envVars>>
        /\ wire' = <<>>

EDATool_get_basic_info ==
    /\ call' = [op |-> "EDATool.get_basic_info"]
    /\ result' = get_basic_info(eda_data)
    /\ UNCHANGED <<dataVars, toolVars, envVars>>
    /\ wire' = <<>>

EDATool_get_statistics ==
    \E columns \in ColumnLists :
        /\ call' = [op |-> "EDATool.get_statistics", columns |-> columns]
        /\ result' = get_statistics(eda_data, columns)
        /\ UNCHANGED <<dataVars, toolVars, envVars>>
        /\ wire' = <<>>

EDATool_get_value_counts ==
    \E column \in ColumnArgs, top_n \in TopNArgs :
        /\ call' = [op |-> "EDATool.get_value_counts", column |-> column]
        /\ result' = get_value_counts(eda_data, column, top_n)
        /\ UNCHANGED <<dataVars, toolVars, envVars>>
        /\ wire' = <<>>

EDATool_get_data_quality_report ==
    /\ call' = [op |-> "EDATool.get_data_quality_report"]
    /\ result' = get_data_quality_report(eda_data)
    /\ UNCHANGED <<dataVars, toolVars, envVars>>
    /\ wire' = <<>>

EDATool_get_full_eda_report ==
    /\ call' = [op |-> "EDATool.get_full_eda_report"]
    /\ result' = get_full_eda_report(eda_data)
    /\ UNCHANGED <<dataVars, toolVars, envVars>>
    /\ wire' = <<>>

\* run(action, **kwargs) with an action outside the table; a known action
\* is the call of its method with the keyword arguments or their defaults
EDATool_run ==
    \E action \in ActionArgs :
        /\ call' = [op |-> "EDATool.run", action |-> action]
        /\ result' = run_unknown(action)
        /\ UNCHANGED <<dataVars, toolVars, envVars>>
        /\ wire' = <<>>

----------------------------------------------------------------------------
(* Calls of ChartTool's public methods. *)

ChartTool_load_data ==
    \E data \in DataArgs :
        /\ chart_data' = data
        /\ call' = [op |-> "ChartTool.load_data", data |-> data]
        /\ result' = load_data_message(data)
        /\ UNCHANGED <<current_dataframe, eda_data, report_data, toolVars, envVars>>
        /\ wire' = <<>>

\* bar_chart, line_chart, scatter_plot, histogram, box_plot, heatmap,
\* pie_chart, distribution_plot and pair_plot
ChartTool_chart ==
    \E chart_type \in ChartTypes, in \in ChartInputs :
        /\ call' = [op |-> "ChartTool.chart", type |-> chart_type]
        /\ result' = chart(chart_type, chart_data, in.columns, in.lib)
        /\ UNCHANGED <<dataVars, toolVars, envVars>>
        /\ wire' = <<>>

ChartTool_custom_chart ==
    \E chart_type \in CustomTypeArgs, in \in ChartInputs :
        /\ call' = [op |-> "ChartTool.custom_chart", type |-> chart_type]
        /\ result' = custom_chart(chart_data, chart_type, in.columns, in.lib)
        /\ UNCHANGED <<dataVars, toolVars, envVars>>
        /\ wire' = <<>>

ChartTool_run ==
    \E action \in ActionArgs :
        /\ call' = [op |-> "ChartTool.run", action |-> action]
        /\ result' = run_unknown(action)
        /\ UNCHANGED <<dataVars, toolVars, envVars>>
        /\ wire' = <<>>

----------------------------------------------------------------------------
(* Calls of ReportTool's public methods. *)

ReportTool_load_data ==
    \E data \in DataArgs :
        /\ report_data' = data
        /\ call' = [op |-> "ReportTool.load_data", data |-> data]
        /\ result' = load_data_message(data)
        /\ UNCHANGED <<current_dataframe, eda_data, chart_data, toolVars, envVars>>
        /\ wire' = <<>>

ReportTool_add_content ==
    \E section \in SectionArgs, value \in ContentArgs :
        LET done == add_content(report_content, section, value) IN
        /\ Len(done.content) <= MaxSections
        /\ report_content' = done.content
        /\ call' = [op |-> "ReportTool.add_content", section |-> section,
                    content |-> value]
        /\ result' = done.res
        /\ UNCHANGED <<dataVars, loaded_documents, dbVars, envVars>>
        /\ wire' = <<>>

\* a generation: its envelope, and the file it leaves when it succeeds
generates(c, res, content) ==
    /\ call' = c
    /\ result' = res
    /\ disk' = written(disk, res, content)
    /\ wire' = <<>>
    /\ UNCHANGED <<dataVars, toolVars, now, threads>>

\* the disk takes a file of that name in the reports directory
room(name) == has_room(disk, "reports", name)
\* what to_csv, to_json and the `Data` sheet put in the file
table_file(fmt, data) == IF data = None THEN Bytes(fmt) ELSE [to_csv(Get(data)) EXCEPT !.fmt = fmt]
\* what the ExcelWriter leaves in the file
excel_file(data, content) ==
    IF data = None THEN Bytes("xlsx")
    ELSE [fmt |-> "xlsx", table |-> data, sheets |-> workbook(Get(data), content)]

ReportTool_generate_pdf_report ==
    \E lib \in BOOLEAN :
        generates([op |-> "ReportTool.generate_pdf_report", at |-> now],
                  generate_pdf_report(report_data,
                      lib /\ room(Stamped(ReportPrefix, now, PdfExt)), now),
                  Bytes("pdf"))

ReportTool_generate_excel_report ==
    \E lib \in BOOLEAN :
        generates([op |-> "ReportTool.generate_excel_report", at |-> now],
                  generate_excel_report(report_data,
                      lib /\ room(Stamped(ReportPrefix, now, XlsxExt)), now),
                  excel_file(report_data, report_content))

ReportTool_generate_csv_export ==
    \E filename \in ExportNames, lib \in BOOLEAN :
        generates([op |-> "ReportTool.generate_csv_export", given |-> filename,
                   at |-> now],
                  generate_csv_export(report_data, filename,
                      lib /\ room(export_name(filename, now, CsvExt)), now),
                  table_file("csv", report_data))

ReportTool_generate_json_export ==
    \E filename \in ExportNames, orient \in OrientArgs, lib \in BOOLEAN :
        generates([op |-> "ReportTool.generate_json_export", given |-> filename,
                   orient |-> orient, at |-> now],
                  generate_json_export(report_data, filename, orient,
                      lib /\ room(export_name(filename, now, JsonExt)), now),
                  table_file("json", report_data))

ReportTool_generate_summary_report ==
    \E lib \in BOOLEAN :
        generates([op |-> "ReportTool.generate_summary_report", at |-> now],
                  generate_summary_report(
                      lib /\ room(Stamped(SummaryPrefix, now, TxtExt)), now),
                  Bytes("txt"))

ReportTool_clear_content ==
    /\ report_content' = clear_content.content
    /\ call' = [op |-> "ReportTool.clear_content"]
    /\ result' = clear_content.res
    /\ UNCHANGED <<dataVars, loaded_documents, dbVars, envVars>>
    /\ wire' = <<>>

\* os.listdir of the reports directory, in some order, or None when it raises
Listings == {None} \cup {Some(order) : order \in Orderings(listdir(disk, "reports"))}

ReportTool_list_reports ==
    \E files \in Listings :
        /\ call' = [op |-> "ReportTool.list_reports"]
        /\ result' = list_reports(files)
        /\ UNCHANGED <<dataVars, toolVars, envVars>>
        /\ wire' = <<>>

ReportTool_run ==
    \E action \in ActionArgs :
        /\ call' = [op |-> "ReportTool.run", action |-> action]
        /\ result' = run_unknown(action)
        /\ UNCHANGED <<dataVars, toolVars, envVars>>
        /\ wire' = <<>>

----------------------------------------------------------------------------
(* Calls of PDFLoaderTool's public methods. *)

PDFLoaderTool_load_pdf ==
    \E file_path \in PathArgs, file \in FileOutcomes, text \in Texts :
        LET done == load_pdf(loaded_documents, file_path, file, text) IN
        /\ loaded_documents' = done.docs
        /\ call' = [op |-> "PDFLoaderTool.load_pdf", file_path |-> file_path]
        /\ result' = done.res
        /\ UNCHANGED <<dataVars, report_content, dbVars, envVars>>
        /\ wire' = <<>>

PDFLoaderTool_load_multiple_pdfs ==
    \E file_paths \in PathListArgs :
        LET iterable == file_paths # None
            items == IF iterable THEN Get(file_paths) ELSE <<>>
            done == load_multiple_pdfs(loaded_documents, iterable, items)
        IN
        /\ loaded_documents' = done.docs
        /\ call' = [op |-> "PDFLoaderTool.load_multiple_pdfs", iterable |-> iterable,
                    items |-> items]
        /\ result' = done.res
        /\ UNCHANGED <<dataVars, report_content, dbVars, envVars>>
        /\ wire' = <<>>

PDFLoaderTool_get_loaded_documents ==
    /\ call' = [op |-> "PDFLoaderTool.get_loaded_documents"]
    /\ result' = get_loaded_documents(loaded_documents)
    /\ UNCHANGED <<dataVars, toolVars, envVars>>
    /\ wire' = <<>>

PDFLoaderTool_get_document_content ==
    \E filename \in DocNameArgs :
        /\ call' = [op |-> "PDFLoaderTool.get_document_content", filename |-> filename]
        /\ result' = get_document_content(loaded_documents, filename)
        /\ UNCHANGED <<dataVars, toolVars, envVars>>
        /\ wire' = <<>>

PDFLoaderTool_get_combined_context ==
    \E filenames \in DocNameLists :
        /\ call' = [op |-> "PDFLoaderTool.get_combined_context", filenames |-> filenames]
        /\ result' = get_combined_context(loaded_documents, filenames)
        /\ UNCHANGED <<dataVars, toolVars, envVars>>
        /\ wire' = <<>>

PDFLoaderTool_clear_documents ==
    /\ loaded_documents' = clear_documents(loaded_documents).docs
    /\ call' = [op |-> "PDFLoaderTool.clear_documents"]
    /\ result' = clear_documents(loaded_documents).res
    /\ UNCHANGED <<dataVars, report_content, dbVars, envVars>>
    /\ wire' = <<>>

PDFLoaderTool_save_uploaded_file ==
    \E filename \in UploadNames, saved \in BOOLEAN :
        LET stored == saved /\ has_room(disk, "uploads", Chars(filename)) IN
        /\ call' = [op |-> "PDFLoaderTool.save_uploaded_file", filename |-> filename]
        /\ result' = save_uploaded_file(Join("uploads", filename), stored)
        /\ disk' = IF stored THEN write(disk, "uploads", Chars(filename), Bytes("pdf"))
                   ELSE disk
        /\ UNCHANGED <<dataVars, toolVars, now, threads>>
        /\ wire' = <<>>

PDFLoaderTool_run ==
    \E action \in ActionArgs :
        /\ call' = [op |-> "PDFLoaderTool.run", action |-> action]
        /\ result' = run_unknown(action)
        /\ UNCHANGED <<dataVars, toolVars, envVars>>
        /\ wire' = <<>>

----------------------------------------------------------------------------
(* Calls of the public methods of SnowflakeTool and SQLServerTool.         *)

Connection(tool) == IF tool = "Snowflake" THEN sf_connection ELSE ms_connection
StoredConfig(tool) == IF tool = "Snowflake" THEN sf_config ELSE ms_config

\* self.connection = conn in the wrapper `tool`
SetConnection(tool, conn) ==
    IF tool = "Snowflake"
    THEN sf_connection' = conn /\ UNCHANGED ms_connection
    ELSE ms_connection' = conn /\ UNCHANGED sf_connection

notDb == <<dataVars, report_content, loaded_documents, sf_config, ms_config>>

connect(tool, op) ==
    \E config \in ConfigArgs, net \in NetOutcomes :
        LET done == db_connect(tool, Connection(tool), StoredConfig(tool), config, net) IN
        /\ SetConnection(tool, done.conn)
        /\ call' = [op |-> op, config |-> config]
        /\ result' = done.res
        /\ wire' = done.wire
        /\ UNCHANGED <<notDb, envVars>>

disconnect(tool, op) ==
    \E closes \in BOOLEAN :
        LET done == db_disconnect(Connection(tool), closes) IN
        /\ SetConnection(tool, done.conn)
        /\ call' = [op |-> op]
        /\ result' = done.res
        /\ wire' = done.wire
        /\ UNCHANGED <<notDb, envVars>>

\* execute_query, and get_tables, get_table_schema and preview_table, which
\* build a query text and hand it to execute_query
execute_query(tool, op) ==
    \E out \in QueryOutcomes :
        LET done == db_execute_query(tool, Connection(tool), StoredConfig(tool),
                                     out.net, out.rows) IN
        /\ SetConnection(tool, done.conn)
        /\ call' = [op |-> op]
        /\ result' = done.res
        /\ wire' = done.wire
        /\ UNCHANGED <<notDb, envVars>>

db_run(op) ==
    \E action \in ActionArgs :
        /\ call' = [op |-> op, action |-> action]
        /\ result' = run_unknown(action)
        /\ UNCHANGED <<dataVars, toolVars, envVars>>
        /\ wire' = <<>>

SnowflakeTool_connect == connect("Snowflake", "SnowflakeTool.connect")
SnowflakeTool_disconnect == disconnect("Snowflake", "SnowflakeTool.disconnect")
SnowflakeTool_execute_query == execute_query("Snowflake", "SnowflakeTool.execute_query")
SnowflakeTool_get_tables == execute_query("Snowflake", "SnowflakeTool.get_tables")
SnowflakeTool_get_table_schema == execute_query("Snowflake", "SnowflakeTool.get_table_schema")
SnowflakeTool_preview_table == execute_query("Snowflake", "SnowflakeTool.preview_table")
SnowflakeTool_run == db_run("SnowflakeTool.run")

SQLServerTool_connect == connect("SQL Server", "SQLServerTool.connect")
SQLServerTool_disconnect == disconnect("SQL Server", "SQLServerTool.disconnect")
SQLServerTool_execute_query == execute_query("SQL Server", "SQLServerTool.execute_query")
SQLServerTool_get_tables == execute_query("SQL Server", "SQLServerTool.get_tables")
SQLServerTool_get_table_schema == execute_query("SQL Server", "SQLServerTool.get_table_schema")
SQLServerTool_preview_table == execute_query("SQL Server", "SQLServerTool.preview_table")
SQLServerTool_run == db_run("SQLServerTool.run")

----------------------------------------------------------------------------
(* The route handlers (src/app/routes.py).  When request.json is not an    *)
(* object, data.get raises before anything else has happened.  A          *)
(* handler that raises is answered by the framework, not by the handler.   *)

\* a handler that only asks a wrapper and passes the envelope on
passes(op, res) ==
    /\ call' = [op |-> op]
    /\ result' = res
    /\ UNCHANGED <<dataVars, toolVars, envVars>>
    /\ wire' = <<>>

\* data.get raised: nothing else has happened
not_an_object(op) == passes(op, Raised("AttributeError"))

set_dataset_two(data) ==
    /\ current_dataframe' = data
    /\ eda_data' = data
    /\ report_data' = data
    /\ UNCHANGED chart_data

\* current_dataframe = df, then the three load_data calls
set_dataset(data) ==
    /\ current_dataframe' = data
    /\ eda_data' = data
    /\ chart_data' = data
    /\ report_data' = data

connect_route(tool, op) ==
    \/ not_an_object(op)
    \/ \E config \in RouteConfigs, net \in NetOutcomes :
             LET done == db_connect(tool, Connection(tool), StoredConfig(tool),
                                    Some(config), net) IN
             /\ SetConnection(tool, done.conn)
             /\ call' = [op |-> op, config |-> Some(config)]
             /\ result' = done.res
             /\ wire' = done.wire
             /\ UNCHANGED <<notDb, envVars>>

query_route(tool, op) ==
    \/ not_an_object(op)
    \/ \E out \in QueryOutcomes :
             LET done == db_execute_query(tool, Connection(tool), StoredConfig(tool),
                                          out.net, out.rows) IN
             /\ SetConnection(tool, done.conn)
             /\ call' = [op |-> op]
             /\ IF done.res.success /\ "data" \in DOMAIN done.res
                THEN /\ set_dataset(Some(done.res.data))
                     /\ result' = IF ~jsonable(head(done.res.data, PreviewLimit))
                                  THEN Raised("TypeError")
                                  ELSE [done.res EXCEPT
                                          !.data = to_records(head(done.res.data, PreviewLimit)),
                                          !.columns = done.res.data.columns]
                ELSE /\ result' = done.res
                     /\ UNCHANGED dataVars
             /\ wire' = done.wire
             /\ UNCHANGED <<report_content, loaded_documents, sf_config, ms_config, envVars>>

tables_route(tool, op) ==
    \E out \in QueryOutcomes :
        LET done == db_execute_query(tool, Connection(tool), StoredConfig(tool),
                                     out.net, out.rows) IN
        /\ SetConnection(tool, done.conn)
        /\ call' = [op |-> op]
        /\ result' = IF done.res.success /\ "data" \in DOMAIN done.res
                     THEN [done.res EXCEPT !.data = to_records(done.res.data)]
                     ELSE done.res
        /\ wire' = done.wire
        /\ UNCHANGED <<notDb, envVars>>

snowflake_connect == connect_route("Snowflake", "snowflake_connect")
snowflake_query == query_route("Snowflake", "snowflake_query")
snowflake_tables == tables_route("Snowflake", "snowflake_tables")
sqlserver_connect == connect_route("SQL Server", "sqlserver_connect")
sqlserver_query == query_route("SQL Server", "sqlserver_query")
sqlserver_tables == tables_route("SQL Server", "sqlserver_tables")

\* the checks both upload routes make before touching the file; <<>> when
\* the request passes them
upload_refusal_unchecked(has_file, filename, allowed_extensions, text) ==
    IF ~has_file THEN <<Fail(<<"No file provided">>)>>
    ELSE IF filename = "" THEN <<Fail(<<"No file selected">>)>>
    ELSE <<>>

upload_refusal(has_file, filename, allowed_extensions, text) ==
    IF ~has_file THEN <<Fail(<<"No file provided">>)>>
    ELSE IF filename = "" THEN <<Fail(<<"No file selected">>)>>
    ELSE IF ~allowed_file(filename, allowed_extensions) THEN <<Fail(<<text>>)>>
    ELSE <<>>

pdf_upload ==
    \E u \in UploadArgs, file \in {"corrupt", "ok"}, text \in Texts :
        LET has_file == u.has_file
            filename == u.filename
            saved == u.saved
            refusal == upload_refusal(has_file, filename, {"pdf"},
                                      "Only PDF files are allowed")
            name == secure_filename(filename)
            stored == saved /\ has_room(disk, "uploads", Chars(name))
            done == load_pdf(loaded_documents, Join("uploads", name), file, text)
        IN  /\ call' = [op |-> "pdf_upload", filename |-> filename]
            /\ IF refusal # <<>>
               THEN result' = refusal[1] /\ UNCHANGED <<loaded_documents, disk>>
               ELSE IF ~stored
               THEN result' = Raised("OSError") /\ UNCHANGED <<loaded_documents, disk>>
               ELSE /\ disk' = write(disk, "uploads", Chars(name),
                                     Bytes(IF file = "ok" THEN "pdf" ELSE "junk"))
                    /\ result' = done.res
                    /\ loaded_documents' = done.docs
            /\ UNCHANGED <<dataVars, report_content, dbVars, now, threads>>
            /\ wire' = <<>>

pdf_list == passes("pdf_list", get_loaded_documents(loaded_documents))

pdf_context ==
    \E filenames \in DocNameLists :
        passes("pdf_context", get_combined_context(loaded_documents, filenames))

pdf_clear ==
    /\ loaded_documents' = clear_documents(loaded_documents).docs
    /\ call' = [op |-> "pdf_clear"]
    /\ result' = clear_documents(loaded_documents).res
    /\ UNCHANGED <<dataVars, report_content, dbVars, envVars>>
    /\ wire' = <<>>

DataExtensions == {"csv", "xlsx", "xls", "json"}

\* whether one of the three endswith branches of data_upload reads the file
is_read(filename) ==
    \/ endswith(filename, ".csv")
    \/ endswith(filename, ".xlsx") \/ endswith(filename, ".xls")
    \/ endswith(filename, ".json")

\* the response of data_upload once the dataset is in place
upload_envelope(data) ==
    IF data = None THEN Fail(<<"TypeError">>)
    ELSE IF ~jsonable(head(Get(data), PreviewLimit))
    THEN Fail(<<"TypeError">>)
    ELSE [success |-> TRUE, rows |-> NRows(Get(data)),
          columns |-> Get(data).columns,
          data |-> to_records(head(Get(data), PreviewLimit)),
          message |-> "Loaded file"]

\* the reader of the branch data_upload takes for that name: the table it
\* reads from the file, None when it raises
pd_read(name, content) ==
    IF endswith(name, ".csv") THEN read_csv(content)
    ELSE IF endswith(name, ".xlsx") \/ endswith(name, ".xls") THEN read_as("xlsx", content)
    ELSE read_as("json", content)

\* content: what the uploaded file holds, a file of the client's or one it
\* has downloaded from the reports directory
data_upload ==
    \E u \in UploadArgs,
       content \in UploadContents \cup {f.content : f \in {g \in disk : g.dir = "reports"}} :
        LET has_file == u.has_file
            filename == u.filename
            saved == u.saved
            refusal == upload_refusal(has_file, filename, DataExtensions,
                                      "Only CSV, Excel, and JSON files are allowed")
            name == secure_filename(filename)
            stored == saved /\ has_room(disk, "uploads", Chars(name))
            read == is_read(name)
            parsed == pd_read(name, content)
            data == IF read THEN parsed ELSE current_dataframe
        IN  /\ call' = [op |-> "data_upload", filename |-> filename, content |-> content]
            /\ IF refusal # <<>>
               THEN result' = refusal[1] /\ UNCHANGED <<dataVars, disk>>
               ELSE IF ~stored
               THEN result' = Raised("OSError") /\ UNCHANGED <<dataVars, disk>>
               ELSE /\ disk' = write(disk, "uploads", Chars(name), content)
                    /\ IF read /\ parsed = None
                       THEN result' = Fail(<<"ParserError">>) /\ UNCHANGED dataVars
                       ELSE result' = upload_envelope(data) /\ set_dataset(data)
            /\ UNCHANGED <<toolVars, now, threads>>
            /\ wire' = <<>>

eda_info == passes("eda_info", get_basic_info(eda_data))

eda_statistics ==
    \E columns \in RouteColumnLists :
        /\ call' = [op |-> "eda_statistics", columns |-> columns]
        /\ result' = get_statistics(eda_data, columns)
        /\ UNCHANGED <<dataVars, toolVars, envVars>>
        /\ wire' = <<>>

eda_correlations ==
    \E method \in {"pearson", "bogus"} :
        /\ call' = [op |-> "eda_correlations", method |-> method]
        /\ result' = get_correlations(eda_data, method)
        /\ UNCHANGED <<dataVars, toolVars, envVars>>
        /\ wire' = <<>>

\* top_n: the text of the query parameter, None when there is none
eda_value_counts ==
    \E column \in RouteColumns, top_n \in TopNTexts :
        LET n == IF top_n = None THEN Some(DefaultTopN) ELSE int(Get(top_n)) IN
        /\ call' = [op |-> "eda_value_counts", column |-> column, top_n |-> top_n]
        /\ result' = IF n = None THEN Raised("ValueError")
                     ELSE get_value_counts(eda_data, column, n)
        /\ UNCHANGED <<dataVars, toolVars, envVars>>
        /\ wire' = <<>>

eda_outliers ==
    \E column \in RouteColumns, method \in MethodArgs :
        /\ call' = [op |-> "eda_outliers", column |-> column, method |-> method]
        /\ result' = detect_outliers(eda_data, column, method)
        /\ UNCHANGED <<dataVars, toolVars, envVars>>
        /\ wire' = <<>>

eda_quality == passes("eda_quality", get_data_quality_report(eda_data))

eda_full_report == passes("eda_full_report", get_full_eda_report(eda_data))

\* the membership test on chart_type comes before any look at the data
chart_create ==
    \/ not_an_object("chart_create")
    \/ \E chart_type \in ChartTypeArgs, in \in ChartInputs :
             /\ call' = [op |-> "chart_create", type |-> chart_type]
             /\ result' = IF ~Hashable(chart_type) THEN Raised("TypeError")
                          ELSE IF chart_type \notin ChartTypes
                          THEN Fail(<<"Unknown chart type: ", chart_type>>)
                          ELSE chart(chart_type, chart_data, in.columns, in.lib)
             /\ UNCHANGED <<dataVars, toolVars, envVars>>
             /\ wire' = <<>>

report_pdf ==
    \/ not_an_object("report_pdf")
    \/ \E lib \in BOOLEAN :
             generates([op |-> "report_pdf", at |-> now],
                       generate_pdf_report(report_data,
                           lib /\ room(Stamped(ReportPrefix, now, PdfExt)), now),
                       Bytes("pdf"))

report_excel ==
    \/ not_an_object("report_excel")
    \/ \E lib \in BOOLEAN :
             generates([op |-> "report_excel", at |-> now],
                       generate_excel_report(report_data,
                           lib /\ room(Stamped(ReportPrefix, now, XlsxExt)), now),
                       excel_file(report_data, report_content))

report_csv ==
    \/ not_an_object("report_csv")
    \/ \E filename \in ExportNames, lib \in BOOLEAN :
             generates([op |-> "report_csv", given |-> filename, at |-> now],
                       generate_csv_export(report_data, filename,
                           lib /\ room(export_name(filename, now, CsvExt)), now),
                       table_file("csv", report_data))

report_json ==
    \/ not_an_object("report_json")
    \/ \E filename \in ExportNames, orient \in OrientArgs,
          lib \in BOOLEAN :
             generates([op |-> "report_json", given |-> filename,
                        orient |-> orient, at |-> now],
                       generate_json_export(report_data, filename, orient,
                           lib /\ room(export_name(filename, now, JsonExt)), now),
                       table_file("json", report_data))

report_add_content ==
    \/ not_an_object("report_add_content")
    \/ \E section \in RouteSections, value \in RouteContents :
             LET done == add_content(report_content, section, value) IN
             /\ report_content' = done.content
             /\ call' = [op |-> "report_add_content", section |-> section,
                         content |-> value]
             /\ result' = done.res
             /\ UNCHANGED <<dataVars, loaded_documents, dbVars, envVars>>
             /\ wire' = <<>>

report_list ==
    \E files \in Listings : passes("report_list", list_reports(files))

\* the name asked for goes through secure_filename before the disk is
\* looked at; the "not found" envelope goes out with status 404
report_download ==
    \E filename \in {Chars(n) : n \in DownloadNames} \cup listdir(disk, "reports") :
        LET name == secure_chars(filename) IN
        /\ call' = [op |-> "report_download", name |-> filename]
        /\ result' = IF exists(disk, "reports", name)
                     THEN [sent |-> Join("reports", name),
                           content |-> file_content(disk, "reports", name)]
                     ELSE [success |-> FALSE, error |-> <<"File not found">>,
                           status |-> NotFound]
        /\ UNCHANGED <<dataVars, toolVars, envVars>>
        /\ wire' = <<>>

data_current ==
    /\ call' = [op |-> "data_current"]
    /\ result' = IF current_dataframe = None THEN Fail(<<"No data loaded">>)
                 ELSE LET df == Get(current_dataframe) IN
                      IF ~jsonable(head(df, PreviewLimit))
                      THEN Raised("TypeError")
                      ELSE [success |-> TRUE, rows |-> NRows(df), columns |-> df.columns,
                            dtypes |-> [c \in ColumnSet(df) |-> c \in df.numeric],
                            data |-> to_records(head(df, PreviewLimit))]
    /\ UNCHANGED <<dataVars, toolVars, envVars>>
    /\ wire' = <<>>

----------------------------------------------------------------------------
(* The application: one process holding the six wrappers and the routing   *)
(* layer's current_dataframe, its requests and calls handled one at a      *)
(* time.                                                                   *)

\* nothing on disk, the clock at its start, no request in progress
InitEnv == disk = {} /\ now = 0 /\ wire = <<>> /\ threads = <<>>

Init ==
    /\ current_dataframe = None /\ eda_data = None
    /\ chart_data = None /\ report_data = None
    /\ report_content = <<>> /\ loaded_documents = <<>>
    /\ sf_connection = None /\ ms_connection = None
    /\ sf_config = SnowflakeEnvironment /\ ms_config = SQLServerEnvironment
    /\ call = NoCall /\ result = NoResult
    /\ InitEnv

\* the application once the table T1 has been loaded
InitLoaded ==
    /\ current_dataframe = Some(T1) /\ eda_data = Some(T1)
    /\ chart_data = Some(T1) /\ report_data = Some(T1)
    /\ report_content = <<>> /\ loaded_documents = <<>>
    /\ sf_connection = None /\ ms_connection = None
    /\ sf_config = SnowflakeEnvironment /\ ms_config = SQLServerEnvironment
    /\ call = NoCall /\ result = NoResult
    /\ InitEnv

NextEDATool ==
    \/ EDATool_load_data \/ EDATool_get_basic_info \/ EDATool_get_statistics
    \/ EDATool_get_correlations \/ EDATool_get_value_counts
    \/ EDATool_detect_outliers \/ EDATool_get_data_quality_report
    \/ EDATool_get_full_eda_report \/ EDATool_run

NextChartTool ==
    \/ ChartTool_load_data \/ ChartTool_chart \/ ChartTool_custom_chart
    \/ ChartTool_run

NextReportTool ==
    \/ ReportTool_load_data \/ ReportTool_add_content
    \/ ReportTool_generate_pdf_report \/ ReportTool_generate_excel_report
    \/ ReportTool_generate_csv_export \/ ReportTool_generate_json_export
    \/ ReportTool_generate_summary_report \/ ReportTool_clear_content
    \/ ReportTool_list_reports \/ ReportTool_run

NextPDFLoaderTool ==
    \/ PDFLoaderTool_load_pdf \/ PDFLoaderTool_load_multiple_pdfs
    \/ PDFLoaderTool_get_loaded_documents \/ PDFLoaderTool_get_document_content
    \/ PDFLoaderTool_get_combined_context \/ PDFLoaderTool_clear_documents
    \/ PDFLoaderTool_save_uploaded_file \/ PDFLoaderTool_run

NextSnowflakeTool ==
    \/ SnowflakeTool_connect \/ SnowflakeTool_disconnect
    \/ SnowflakeTool_execute_query \/ SnowflakeTool_get_tables
    \/ SnowflakeTool_get_table_schema \/ SnowflakeTool_preview_table
    \/ SnowflakeTool_run

NextSQLServerTool ==
    \/ SQLServerTool_connect \/ SQLServerTool_disconnect
    \/ SQLServerTool_execute_query \/ SQLServerTool_get_tables
    \/ SQLServerTool_get_table_schema \/ SQLServerTool_preview_table
    \/ SQLServerTool_run

NextTools ==
    \/ NextEDATool \/ NextChartTool \/ NextReportTool
    \/ NextPDFLoaderTool \/ NextSnowflakeTool \/ NextSQLServerTool

\* the routes that write no file
NextPlainRoutes ==
    \/ snowflake_connect \/ snowflake_query \/ snowflake_tables
    \/ sqlserver_connect \/ sqlserver_query \/ sqlserver_tables
    \/ pdf_list \/ pdf_context \/ pdf_clear
    \/ eda_info \/ eda_statistics \/ eda_correlations \/ eda_value_counts
    \/ eda_outliers \/ eda_quality \/ eda_full_report
    \/ chart_create
    \/ report_add_content \/ report_list \/ report_download
    \/ data_current

\* the routes that store an uploaded file
NextUploadRoutes == pdf_upload \/ data_upload

\* the routes that write a report or an export
NextReportRoutes == report_pdf \/ report_excel \/ report_csv \/ report_json

NextRoutes == NextPlainRoutes \/ NextUploadRoutes \/ NextReportRoutes

\* the routes that bring or show a dataset
NextLoadRoutes ==
    \/ snowflake_query \/ sqlserver_query \/ data_upload \/ data_current

\* the wrappers that keep what they hold in memory, and those that work on
\* files
NextDataTools ==
    \/ NextEDATool \/ NextChartTool \/ NextSnowflakeTool \/ NextSQLServerTool
NextFileTools == NextPDFLoaderTool \/ NextReportTool

\* a second passes
Tick == now < MaxTime /\ now' = now + 1 /\ UNCHANGED <<dataVars, toolVars, outVars, disk, wire, threads>>

Next == NextTools \/ NextRoutes \/ Tick

Spec == Init /\ [][Next]_vars

\* the wrappers called directly, as a library
SpecTools == Init /\ [][NextTools]_vars

\* the wrappers reached through the HTTP routes alone
SpecRoutes == Init /\ [][NextRoutes]_vars

\* parts of the application, each a behaviour of Spec
SpecDataTools == Init /\ [][NextDataTools]_vars
SpecFileTools == Init /\ [][NextFileTools \/ Tick]_vars
\* reports and exports of a loaded table, generated as the clock goes
NextGenerate ==
    \/ ReportTool_generate_pdf_report \/ ReportTool_generate_excel_report
    \/ ReportTool_generate_csv_export \/ ReportTool_generate_json_export
    \/ Tick
SpecGenerate == InitLoaded /\ [][NextGenerate]_vars
\* the report wrapper: its dataset, its sections and what it writes
NextSections ==
    \/ ReportTool_load_data \/ ReportTool_add_content \/ ReportTool_clear_content
    \/ ReportTool_generate_pdf_report \/ ReportTool_generate_excel_report
    \/ ReportTool_generate_csv_export \/ ReportTool_generate_summary_report
    \/ ReportTool_list_reports
SpecSections == Init /\ [][NextSections]_vars
\* content sections and the workbook made of them
SpecSheets ==
    InitLoaded /\ [][\/ ReportTool_add_content \/ ReportTool_clear_content
                     \/ ReportTool_generate_excel_report]_vars
\* the report endpoints over a loaded table, and the download of files
\* a table queried, exported as CSV and uploaded again
SpecRoundTrip == Init /\ [][snowflake_query \/ report_csv \/ data_upload]_vars
SpecReportRoutes ==
    InitLoaded /\ [][NextReportRoutes \/ report_list \/ report_download]_vars
SpecPlainRoutes == Init /\ [][NextPlainRoutes]_vars
SpecLoadRoutes == Init /\ [][NextLoadRoutes]_vars
\* the two upload routes
SpecUploads == Init /\ [][NextUploadRoutes]_vars
\* the PDF loader called directly
SpecDocuments == Init /\ [][NextPDFLoaderTool]_vars

----------------------------------------------------------------------------
(* Outlier detection as a function of the column: the dataset is any       *)
(* one-column table over ColumnInputs.                                     *)

InitOutliers ==
    /\ eda_data \in {Some(OneColumnFrame(col)) : col \in ColumnInputs}
    /\ current_dataframe = None /\ chart_data = None /\ report_data = None
    /\ report_content = <<>> /\ loaded_documents = <<>>
    /\ sf_connection = None /\ ms_connection = None
    /\ sf_config = EmptyConfig /\ ms_config = EmptyConfig
    /\ call = NoCall /\ result = NoResult
    /\ InitEnv

NextOutliers == EDATool_detect_outliers

SpecOutliers == InitOutliers /\ [][NextOutliers]_vars

----------------------------------------------------------------------------
(* The correlation report as a function of the table: the dataset is any   *)
(* table of three numeric columns with CorrRows rows.                      *)

CorrColumns == [1..CorrRows -> {{v} : v \in 0..CorrMaxVal}]

\* the third column is a step: k zeros, then ones
StepColumns == {[i \in 1..CorrRows |-> {IF i <= k THEN 0 ELSE 1}] : k \in 0..CorrRows}

CorrFrames ==
    {Frame(<<"a", "b", "d">>, {"a", "b", "d"}, [a |-> ca, b |-> cb, d |-> cd]) :
        ca \in CorrColumns, cb \in CorrColumns, cd \in StepColumns}

InitCorr ==
    /\ eda_data \in {Some(df) : df \in CorrFrames}
    /\ current_dataframe = None /\ chart_data = None /\ report_data = None
    /\ report_content = <<>> /\ loaded_documents = <<>>
    /\ sf_connection = None /\ ms_connection = None
    /\ sf_config = EmptyConfig /\ ms_config = EmptyConfig
    /\ call = NoCall /\ result = NoResult
    /\ InitEnv

NextCorr == EDATool_get_correlations

SpecCorr == InitCorr /\ [][NextCorr]_vars

----------------------------------------------------------------------------
(* Two dataset-loading requests handled at the same time by two threads of *)
(* the server: snowflake_query after execute_query has returned its table, *)
(* data_upload after the file is stored.  A thread is the route it runs,   *)
(* the statement it is at, the table it brings and the response it is      *)
(* building; the threads interleave between statements, and every read of  *)
(* current_dataframe sees the value of that moment.                        *)

Requests == {1, 2}
LoadKinds == {"snowflake_query", "data_upload"}
RaceTable(t) == IF t = 1 THEN T1 ELSE Unnamed

InitRace ==
    /\ current_dataframe = None /\ eda_data = None
    /\ chart_data = None /\ report_data = None
    /\ report_content = <<>> /\ loaded_documents = <<>>
    /\ sf_connection = None /\ ms_connection = None
    /\ sf_config = SnowflakeEnvironment /\ ms_config = SQLServerEnvironment
    /\ call = NoCall /\ result = NoResult
    /\ disk = {} /\ now = 0 /\ wire = <<>>
    /\ threads \in {[t \in Requests |->
                        [kind |-> kind[t], pc |-> "store", table |-> RaceTable(t),
                         resp |-> [success |-> TRUE]]] :
                     kind \in [Requests -> LoadKinds]}

raceFrame == <<toolVars, outVars, disk, now, wire>>

\* current_dataframe = result['data'], current_dataframe = pd.read_csv(filepath)
store_dataframe(t) ==
    /\ threads[t].pc = "store"
    /\ current_dataframe' = Some(threads[t].table)
    /\ threads' = [threads EXCEPT ![t].pc = "eda"]
    /\ UNCHANGED <<eda_data, chart_data, report_data, raceFrame>>

\* eda_tool.load_data(current_dataframe)
load_eda(t) ==
    /\ threads[t].pc = "eda"
    /\ eda_data' = current_dataframe
    /\ threads' = [threads EXCEPT ![t].pc = "chart"]
    /\ UNCHANGED <<current_dataframe, chart_data, report_data, raceFrame>>

\* chart_tool.load_data(current_dataframe)
load_chart(t) ==
    /\ threads[t].pc = "chart"
    /\ chart_data' = current_dataframe
    /\ threads' = [threads EXCEPT ![t].pc = "report"]
    /\ UNCHANGED <<current_dataframe, eda_data, report_data, raceFrame>>

\* report_tool.load_data(current_dataframe)
load_report(t) ==
    /\ threads[t].pc = "report"
    /\ report_data' = current_dataframe
    /\ threads' = [threads EXCEPT
                     ![t].pc = IF threads[t].kind = "data_upload" THEN "rows"
                               ELSE "columns"]
    /\ UNCHANGED <<current_dataframe, eda_data, chart_data, raceFrame>>

\* data_upload: 'rows': len(current_dataframe)
read_rows(t) ==
    /\ threads[t].pc = "rows"
    /\ threads' = [threads EXCEPT
                     ![t].pc = "columns",
                     ![t].resp = [success |-> TRUE,
                                  rows |-> NRows(Get(current_dataframe))]]
    /\ UNCHANGED <<dataVars, raceFrame>>

\* snowflake_query: the preview of result['data'], then
\* result['columns'] = list(current_dataframe.columns);
\* data_upload: 'columns': list(current_dataframe.columns)
read_columns(t) ==
    /\ threads[t].pc = "columns"
    /\ threads' = [threads EXCEPT
                     ![t].pc = IF threads[t].kind = "data_upload" THEN "data"
                               ELSE "done",
                     ![t].resp =
                         IF threads[t].kind = "data_upload"
                         THEN [success |-> TRUE, rows |-> threads[t].resp.rows,
                               columns |-> Get(current_dataframe).columns]
                         ELSE [success |-> TRUE,
                               rows |-> NRows(threads[t].table),
                               data |-> to_records(head(threads[t].table, PreviewLimit)),
                               columns |-> Get(current_dataframe).columns]]
    /\ UNCHANGED <<dataVars, raceFrame>>

\* data_upload: 'data': current_dataframe.head(100).to_dict('records')
read_data(t) ==
    /\ threads[t].pc = "data"
    /\ threads' = [threads EXCEPT
                     ![t].pc = "done",
                     ![t].resp = [success |-> TRUE, rows |-> threads[t].resp.rows,
                                  columns |-> threads[t].resp.columns,
                                  data |-> to_records(head(Get(current_dataframe),
                                                           PreviewLimit))]]
    /\ UNCHANGED <<dataVars, raceFrame>>

\* return jsonify(...)
send_response(t) ==
    /\ threads[t].pc = "done"
    /\ threads' = [threads EXCEPT ![t].pc = "sent"]
    /\ call' = [op |-> threads[t].kind, request |-> t]
    /\ result' = threads[t].resp
    /\ UNCHANGED <<dataVars, toolVars, disk, now, wire>>

NextRace ==
    \E t \in Requests :
        \/ store_dataframe(t) \/ load_eda(t) \/ load_chart(t) \/ load_report(t)
        \/ read_rows(t) \/ read_columns(t) \/ read_data(t) \/ send_response(t)

SpecConnectors == Init /\ [][NextSnowflakeTool \/ NextSQLServerTool]_vars

SpecRace == InitRace /\ [][NextRace]_vars

----------------------------------------------------------------------------
(* Properties of the envelope and of error handling (SpecTools,            *)
(* SpecRoutes).                                                            *)

\* the names under which the route handlers record their calls
RouteOps ==
    {"snowflake_connect", "snowflake_query", "snowflake_tables",
     "sqlserver_connect", "sqlserver_query", "sqlserver_tables",
     "pdf_upload", "pdf_list", "pdf_context", "pdf_clear", "data_upload",
     "eda_info", "eda_statistics", "eda_correlations", "eda_value_counts",
     "eda_outliers", "eda_quality", "eda_full_report", "chart_create",
     "report_pdf", "report_excel", "report_csv", "report_json",
     "report_add_content", "report_list", "report_download", "data_current"}

RouteCall == call.op \in RouteOps
WrapperCall == call.op \notin RouteOps \cup {"none"}

RunOps == {"EDATool.run", "ChartTool.run", "ReportTool.run", "PDFLoaderTool.run",
           "SnowflakeTool.run", "SQLServerTool.run"}

\* the error text has `value` among its parts
ErrorContains(r, value) ==
    Failed(r) /\ "error" \in DOMAIN r /\ \E i \in DOMAIN r.error : r.error[i] = value

\* C1: every record returned by a wrapper operation or built by a route has
\* a boolean `success` and a `message`, and has an `error` whenever
\* `success` is false.
C1_EnvelopeHasMessageAndError ==
    (call.op # "none" /\ ~IsRaise(result) /\ "sent" \notin DOMAIN result) =>
        /\ IsEnvelope(result)
        /\ "message" \in DOMAIN result
        /\ (~result.success => "error" \in DOMAIN result)

\* C2: no public method of the six wrappers raises: every call returns an
\* envelope.
C2_NoWrapperMethodRaises == WrapperCall => IsEnvelope(result)

\* C3: no route handler raises: every request is answered with an envelope,
\* the download route alone answering otherwise (the file, or status 404).
C3_NoRouteRaises == RouteCall => (IsEnvelope(result) \/ call.op = "report_download")

NoDataset ==
    /\ current_dataframe = None /\ eda_data = None
    /\ chart_data = None /\ report_data = None

\* the statistics, correlation and chart requests
AnalysisOps ==
    {"EDATool.get_basic_info", "EDATool.get_statistics", "EDATool.get_correlations",
     "EDATool.get_value_counts", "EDATool.detect_outliers",
     "EDATool.get_data_quality_report", "EDATool.get_full_eda_report",
     "ChartTool.chart", "ChartTool.custom_chart", "chart_create"}

\* C4: with no dataset loaded, every EDATool analysis method, every ChartTool
\* chart method and /api/chart/create with any type fails with the error
\* 'No data loaded'.
C4_NoDataLoaded ==
    (NoDataset /\ call.op \in AnalysisOps /\ (call.op = "chart_create" => "type" \in DOMAIN call))
        => ErrorIs(result, "No data loaded")

\* the call asks for a chart type, an action or an outlier method that the
\* code does not know; UnknownValue is what it asked for
UnknownChartType ==
    \/ call.op = "chart_create" /\ "type" \in DOMAIN call /\ call.type \notin ChartTypes
    \/ call.op = "ChartTool.custom_chart" /\ call.type \notin CustomTypes
UnknownAction == call.op \in RunOps
UnknownMethod ==
    call.op \in {"EDATool.detect_outliers", "eda_outliers"} /\ call.method \notin {"iqr", "zscore"}
UnknownValue ==
    IF UnknownAction THEN call.action
    ELSE IF UnknownMethod THEN call.method
    ELSE call.type

\* C5: an unknown chart type, an unknown action or an unknown outlier method
\* is answered with a failure envelope whose error contains the unknown
\* value; the call does not raise.
C5_UnknownValueIsNamed ==
    (UnknownChartType \/ UnknownAction \/ UnknownMethod) => ErrorContains(result, UnknownValue)

\* the column names the call gave that the dataset does not have
AbsentColumns ==
    IF call.op = "EDATool.get_statistics"
    THEN SeqToSet(call.columns) \ (ColumnSet(Get(eda_data)) \cup {Unhashable})
    ELSE {call.column} \ (ColumnSet(Get(eda_data)) \cup {Unhashable})

\* C6: with a dataset loaded, get_statistics, get_value_counts and
\* detect_outliers fail with 'Column not found' naming the column when they
\* are given a column name the dataset does not have.
C6_AbsentColumnIsReported ==
    (/\ call.op \in {"EDATool.get_statistics", "EDATool.get_value_counts",
                    "EDATool.detect_outliers"}
     /\ eda_data # None
     /\ AbsentColumns # {})
        => \E c \in AbsentColumns : ErrorNames(result, "Column not found: ", c)

----------------------------------------------------------------------------
(* Properties of the uploads and of the current dataset (SpecLoadRoutes).  *)

\* what follows the last dot of a name, in lower case; <<>> without a dot
Extension(filename) ==
    IF "." \in SeqToSet(Chars(filename))
    THEN MapSeq(rsplit_ext(Chars(filename)), Lower)
    ELSE <<>>

AllowedFor(op) == IF op = "pdf_upload" THEN {"pdf"} ELSE {"csv", "xlsx", "xls", "json"}

\* an upload request with an empty filename or an extension the route does
\* not take
Unacceptable(c) ==
    /\ c.op \in {"pdf_upload", "data_upload"}
    /\ \/ c.filename = ""
       \/ ~\E ext \in AllowedFor(c.op) : Chars(ext) = Extension(c.filename)

\* C11: an upload whose filename is empty or whose extension the route does
\* not allow is answered with a failure envelope carrying an error, and the
\* request leaves the disk, the current dataset (in all four places) and the
\* loaded documents as they were.
C11_RejectedUploadWritesNothing ==
    [][Unacceptable(call') =>
          /\ Failed(result') /\ "error" \in DOMAIN result'
          /\ disk' = disk
          /\ UNCHANGED dataVars
          /\ loaded_documents' = loaded_documents]_vars

\* a data upload refused for its extension after files were stored and a
\* dataset loaded
C11_Witness ==
    /\ call.op = "data_upload" /\ call.filename = "d1.pdf"
    /\ Failed(result)
    /\ disk # {} /\ current_dataframe # None

\* C12: a successful data upload whose filename passes allowed_file and
\* whose file holds a table of N rows and M columns reports rows = N and M
\* columns, and that table is the current dataset afterwards.
C12_UploadedTableIsCurrent ==
    (/\ call.op = "data_upload" /\ call.filename # ""
     /\ allowed_file(call.filename, {"csv", "xlsx", "xls", "json"})
     /\ call.content.fmt = "csv"
     /\ Succeeded(result))
        => LET T == Get(call.content.table) IN
           /\ result.rows = NRows(T)
           /\ Len(result.columns) = Len(T.columns)
           /\ current_dataframe # None
           /\ NRows(Get(current_dataframe)) = NRows(T)
           /\ Len(Get(current_dataframe).columns) = Len(T.columns)

PreviewOps == {"snowflake_query", "sqlserver_query", "data_upload", "data_current"}

\* C13: the row preview of a successful query, data upload or
\* /api/data/current response holds min(N, 100) records of the N-row
\* dataset, and its columns list is the dataset's full column list.
C13_PreviewIsBounded ==
    (call.op \in PreviewOps /\ Succeeded(result))
        => LET df == Get(current_dataframe) IN
           /\ Len(result.data) = (IF NRows(df) < 100 THEN NRows(df) ELSE 100)
           /\ result.columns = df.columns

\* a table of more than 100 rows uploaded and previewed
C13_Witness ==
    /\ call.op = "data_upload" /\ Succeeded(result)
    /\ NRows(Get(current_dataframe)) > 100
    /\ Len(result.data) = 100

\* the rows a successful loading response reports
ReportedRows == IF call.op = "data_upload" THEN result.rows ELSE result.row_count

----------------------------------------------------------------------------
(* Properties of the workbook (SpecSheets).                                *)

\* the sections whose content is a record or a table
Structured(content) ==
    {content[i].key : i \in {j \in DOMAIN content :
                                content[j].value.type \in {"dict", "DataFrame"}}}
\* the workbook of the report the last call wrote
WrittenBook == file_content(disk, "reports", result.filename).sheets
\* the sheets that hold a content section
ContentSheets(book) ==
    {i \in DOMAIN book : \E w \in DOMAIN book[i].writes : book[i].writes[w].from = "section"}

\* C24: a successful generate_excel_report leaves one sheet a structured
\* content section, named by the first 31 characters of the section name
\* and holding that section alone: as many content sheets as structured
\* sections, none shared with another section or with a built-in sheet.
C24_OneSheetASection ==
    (call.op = "ReportTool.generate_excel_report" /\ Succeeded(result)) =>
        /\ Cardinality(ContentSheets(WrittenBook))
              = Cardinality(Structured(report_content))
        /\ \A section \in Structured(report_content) :
              \E i \in DOMAIN WrittenBook :
                 /\ WrittenBook[i].name = Truncate(Chars(section), SheetNameLimit)
                 /\ WrittenBook[i].writes = <<OfSection(section)>>

----------------------------------------------------------------------------
(* Properties of the loaded documents (SpecDocuments).                     *)

DocumentReads ==
    {"PDFLoaderTool.get_loaded_documents", "PDFLoaderTool.get_document_content",
     "PDFLoaderTool.get_combined_context", "PDFLoaderTool.save_uploaded_file",
     "PDFLoaderTool.run"}
Names(docs) == {docs[i].key : i \in DOMAIN docs}
TextOf(docs, name) == (CHOOSE i \in DOMAIN docs : docs[i].key = name)
\* the basenames of the files a load_multiple_pdfs call loaded
LoadedBy(res) == {res.results[i].file.name :
                     i \in {j \in DOMAIN res.results : res.results[j].success}}

\* C22: the mapping has one entry a name; a successful load_pdf adds the
\* basename of the file, or replaces its text when it is there, and leaves
\* the other entries; a failed load changes nothing; load_multiple_pdfs
\* adds the basenames of the files it loaded; no read removes an entry;
\* clear_documents empties the mapping, and the list then is empty with
\* count 0.
C22_LoadedDocuments ==
    [][/\ Len(loaded_documents') = Cardinality(Names(loaded_documents'))
       /\ call'.op = "PDFLoaderTool.load_pdf" =>
              IF Succeeded(result')
              THEN LET name == call'.file_path.name IN
                   /\ Names(loaded_documents') = Names(loaded_documents) \cup {name}
                   /\ loaded_documents'[TextOf(loaded_documents', name)].value
                          = result'.content
                   /\ \A k \in Names(loaded_documents) \ {name} :
                          loaded_documents'[TextOf(loaded_documents', k)].value
                             = loaded_documents[TextOf(loaded_documents, k)].value
              ELSE loaded_documents' = loaded_documents
       /\ call'.op = "PDFLoaderTool.load_multiple_pdfs" =>
              IF IsEnvelope(result')
              THEN Names(loaded_documents')
                      = Names(loaded_documents) \cup LoadedBy(result')
              ELSE loaded_documents' = loaded_documents
       /\ call'.op \in DocumentReads => loaded_documents' = loaded_documents
       /\ call'.op = "PDFLoaderTool.clear_documents" => loaded_documents' = <<>>
       /\ (call'.op = "PDFLoaderTool.get_loaded_documents"
             /\ call.op = "PDFLoaderTool.clear_documents")
              => result'.documents = <<>> /\ result'.count = 0]_vars

\* d1.pdf, loaded before d2.pdf, has been loaded again with another text
C22_Witness ==
    /\ call.op = "PDFLoaderTool.load_pdf" /\ Succeeded(result)
    /\ call.file_path = [dir |-> "other", name |-> "d1.pdf"]
    /\ result.content = "t2"
    /\ Len(loaded_documents) = 2
    /\ loaded_documents[1] = [key |-> "d1.pdf", value |-> "t2"]
    /\ loaded_documents[2].key = "d2.pdf"

\* the names a get_combined_context call selects
Selected(docs, filenames) ==
    IF filenames = <<>> THEN Names(docs) ELSE Names(docs) \cap SeqToSet(filenames)

\* C23: get_combined_context(filenames) fails, with an envelope, exactly
\* when no loaded document is selected; otherwise it includes the selected
\* documents (all of them for None or an empty list) and no other, each
\* once, each text under the header of its own name; the mapping is left
\* as it was.
C23_CombinedContext ==
    [][call'.op = "PDFLoaderTool.get_combined_context" =>
        LET chosen == Selected(loaded_documents, call'.filenames) IN
        /\ loaded_documents' = loaded_documents
        /\ IsEnvelope(result')
        /\ Succeeded(result') <=> chosen # {}
        /\ Succeeded(result') =>
              /\ SeqToSet(result'.documents_included) = chosen
              /\ Len(result'.documents_included) = Cardinality(chosen)
              /\ Len(result'.content) = Cardinality(chosen)
              /\ \A i \in DOMAIN result'.content :
                    /\ result'.content[i].header = result'.documents_included[i]
                    /\ result'.content[i].text
                          = loaded_documents[TextOf(loaded_documents,
                                                    result'.content[i].header)].value]_vars

\* one of two loaded documents was asked for, twice
C23_Witness ==
    /\ call.op = "PDFLoaderTool.get_combined_context"
    /\ call.filenames = <<"d1.pdf", "d1.pdf">>
    /\ Names(loaded_documents) = {"d1.pdf", "d2.pdf"}
    /\ Succeeded(result)
    /\ result.documents_included = <<"d1.pdf">>

----------------------------------------------------------------------------
(* Properties of the content sections (SpecSections).                      *)

\* C25: a successful add_content sets the section it names, in place when
\* the section is there, and leaves every other section; clear_content
\* empties the mapping; load_data, the exports, list_reports and an
\* add_content that raises leave the mapping as it was, so that no
\* section goes but by clear_content.
C25_SectionsFrame ==
    [][/\ call'.op = "ReportTool.add_content" =>
              IF Succeeded(result')
              THEN /\ Names(report_content')
                        = Names(report_content) \cup {call'.section}
                   /\ Len(report_content') = Cardinality(Names(report_content'))
                   /\ report_content'[TextOf(report_content', call'.section)].value
                        = call'.content
                   /\ \A k \in Names(report_content) \ {call'.section} :
                        report_content'[TextOf(report_content', k)].value
                           = report_content[TextOf(report_content, k)].value
              ELSE report_content' = report_content
       /\ call'.op = "ReportTool.clear_content" => report_content' = <<>>
       /\ call'.op \notin {"ReportTool.add_content", "ReportTool.clear_content"}
              => report_content' = report_content
       /\ ~(Names(report_content) \subseteq Names(report_content'))
              => call'.op = "ReportTool.clear_content"]_vars

\* the first of two sections has been set again, with a dataset loaded
C25_Witness ==
    /\ call.op = "ReportTool.add_content" /\ Succeeded(result)
    /\ call.section = "Data" /\ call.content = Table("f")
    /\ Len(report_content) = 2
    /\ report_content[1] = [key |-> "Data", value |-> Table("f")]
    /\ report_content[2].value = Text("x")
    /\ report_data # None

----------------------------------------------------------------------------
(* Properties of the full EDA report (SpecPlainRoutes).                    *)

\* C30: a full EDA report that says success holds four sub-reports that
\* say success: basic_info, statistics, correlations and data_quality.
C30_FullReportSuccess ==
    (call.op \in {"EDATool.get_full_eda_report", "eda_full_report"}
     /\ Succeeded(result))
        => /\ result.basic_info.success
           /\ result.statistics.success
           /\ result.correlations.success
           /\ result.data_quality.success

----------------------------------------------------------------------------
(* Properties of load_data (SpecDataTools).                                *)

LoadDataOps == {"EDATool.load_data", "ChartTool.load_data", "ReportTool.load_data"}

\* C26: a load_data call of EDATool, ChartTool or ReportTool that returns a
\* failure envelope leaves the dataset of its wrapper as it was.
C26_FailedLoadKeepsDataset ==
    [][(call'.op \in LoadDataOps /\ Failed(result'))
          => <<eda_data, chart_data, report_data>>'
                = <<eda_data, chart_data, report_data>>]_vars

----------------------------------------------------------------------------
(* Properties of the routes that load a dataset (SpecLoadRoutes).          *)

DatasetRoutes == {"snowflake_query", "sqlserver_query", "data_upload"}

\* C27: a query or a data upload answered with success == False leaves
\* current_dataframe and the datasets of the three wrappers as they were,
\* and a request of any other route leaves them as they were whatever its
\* answer.
C27_FailedRequestKeepsDataset ==
    [][/\ (call'.op \in DatasetRoutes /\ Failed(result')) => UNCHANGED dataVars
       /\ call'.op \notin DatasetRoutes => UNCHANGED dataVars]_vars

----------------------------------------------------------------------------
(* Properties of the two connectors (SpecConnectors).                      *)

ConnectOps == {"SnowflakeTool.connect", "SQLServerTool.connect"}
QueryOps ==
    {"SnowflakeTool.execute_query", "SnowflakeTool.get_tables",
     "SnowflakeTool.get_table_schema", "SnowflakeTool.preview_table",
     "SQLServerTool.execute_query", "SQLServerTool.get_tables",
     "SQLServerTool.get_table_schema", "SQLServerTool.preview_table"}
OfSnowflake(op) ==
    op \in {"SnowflakeTool.connect", "SnowflakeTool.execute_query",
            "SnowflakeTool.get_tables", "SnowflakeTool.get_table_schema",
            "SnowflakeTool.preview_table"}
StoredFor(op) == IF OfSnowflake(op) THEN sf_config ELSE ms_config
OpenFor(op) == IF OfSnowflake(op) THEN sf_connection ELSE ms_connection

Incomplete(cfg) == cfg.host \in {"", Missing} \/ cfg.user \in {"", Missing}
\* the configuration of a connect call: the one given, the stored one when
\* none is given
GivenConfig(c) == IF c.config # None THEN Get(c.config) ELSE StoredFor(c.op)
\* the same, where the empty dict counts as none given
EffectiveConfig(c) ==
    IF c.config # None /\ Get(c.config) # EmptyDict THEN Get(c.config)
    ELSE StoredFor(c.op)
Times(seq, x) == Cardinality({i \in DOMAIN seq : seq[i] = x})

\* C16 as stated: connect with a configuration whose host/account or user
\* is missing or empty fails with the 'Missing required configuration'
\* error, dials nothing and leaves the handle.
C16_AsStated ==
    [][call'.op \in ConnectOps /\ Incomplete(GivenConfig(call'))
           => /\ Failed(result')
              /\ result'.error[1] = "Missing required configuration"
              /\ Times(wire', "dial") = 0
              /\ UNCHANGED <<sf_connection, ms_connection>>]_vars

\* C16: connect fails without dialling and without touching the handle
\* when the configuration it works with (the given one, or the stored one
\* when none or an empty one is given) lacks the host/account or the user;
\* the error is 'Missing required configuration', or the import error when
\* the driver is not installed.
C16_IncompleteConfigFailsFast ==
    [][call'.op \in ConnectOps /\ Incomplete(EffectiveConfig(call'))
           => /\ Failed(result')
              /\ result'.error[1] \in {"Missing required configuration", "ImportError"}
              /\ Times(wire', "dial") = 0
              /\ UNCHANGED <<sf_connection, ms_connection>>]_vars

\* a connect without a user was refused while a connection was open
C16_Witness ==
    /\ call.op = "SnowflakeTool.connect"
    /\ call.config = Some(Config("h", ""))
    /\ Failed(result) /\ result.error[1] = "Missing required configuration"
    /\ wire = <<"connect">>
    /\ sf_connection # None

ConnectFailure(res) ==
    /\ Failed(res)
    /\ res.message \in {"Failed to connect", "Please provide connection details"}

\* C17: execute_query calls connect exactly when no connection is open,
\* once, before the query is sent; after a failed connect the query is not
\* sent and the envelope of connect is returned; nothing is done twice.
C17_LazyConnectOnce ==
    [][call'.op \in QueryOps
           => /\ Times(wire', "connect") = IF OpenFor(call'.op) = None THEN 1 ELSE 0
              /\ Times(wire', "dial") <= Times(wire', "connect")
              /\ Times(wire', "execute") <= 1
              /\ \A i, j \in DOMAIN wire' :
                     wire'[i] = "execute" /\ wire'[j] # "execute" => j < i
              /\ IF (IF OfSnowflake(call'.op) THEN sf_connection' ELSE ms_connection') = None
                 THEN Times(wire', "execute") = 0 /\ ConnectFailure(result')
                 ELSE Times(wire', "execute") = 1]_vars

\* a query over no connection connected, and was sent
C17_Witness ==
    /\ call.op = "SnowflakeTool.execute_query"
    /\ wire = <<"connect", "dial", "execute">>
    /\ result.success /\ result.row_count = 3

\* a query over no connection could not connect, and was not sent
C17_WitnessRefused ==
    /\ call.op = "SnowflakeTool.execute_query"
    /\ wire = <<"connect", "dial">>
    /\ ConnectFailure(result) /\ sf_connection = None

\* the handle of the wrapper an operation belongs to, after the step
OpenAfter(op) == IF OfSnowflake(op) THEN sf_connection' ELSE ms_connection'

\* C28: a connect that returns a failure envelope leaves both handles as
\* they were and closes nothing; the query that follows goes over the
\* connection that was open, without another connect; a handle that is set
\* holds a connection the driver opened, with both required fields.
C28_FailedConnectKeepsHandle ==
    [][/\ (call'.op \in ConnectOps /\ Failed(result'))
          => /\ UNCHANGED <<sf_connection, ms_connection>>
             /\ Times(wire', "close") = 0
       /\ (call.op \in ConnectOps /\ Failed(result) /\ call'.op \in QueryOps
           /\ OfSnowflake(call.op) = OfSnowflake(call'.op)
           /\ OpenFor(call.op) # None)
          => /\ wire' = <<"execute">>
             /\ OpenAfter(call'.op) = OpenFor(call.op)
       /\ \A conn \in {sf_connection', ms_connection'} :
             conn # None => ~Incomplete(Get(conn))]_vars

\* a connect with other settings was refused over an open connection
C28_Witness ==
    /\ call.op = "SnowflakeTool.connect"
    /\ call.config = Some(Config("g", "u"))
    /\ Failed(result) /\ result.error = <<"connection refused">>
    /\ wire = <<"connect", "dial">>
    /\ sf_connection = Some(Config("h", "u"))

\* C29: no operation changes the stored configuration; a query over no
\* connection, also after a connect with other settings and a disconnect,
\* connects with the stored configuration: it fails without dialling when
\* that lacks a required field, and otherwise the connection it opens is
\* one to the stored settings.
C29_StoredConfigKept ==
    [][/\ UNCHANGED <<sf_config, ms_config>>
       /\ (call'.op \in QueryOps /\ OpenFor(call'.op) = None)
          => IF Incomplete(StoredFor(call'.op))
             THEN /\ ConnectFailure(result')
                  /\ Times(wire', "dial") = 0
                  /\ OpenAfter(call'.op) = None
             ELSE OpenAfter(call'.op) \in {None, Some(StoredFor(call'.op))}]_vars

\* a query connected with the settings of the environment while the other
\* wrapper holds a connection made with settings of the caller
C29_Witness ==
    /\ call.op = "SnowflakeTool.execute_query"
    /\ wire = <<"connect", "dial", "execute">>
    /\ sf_connection = Some(SnowflakeEnvironment)
    /\ sf_config = SnowflakeEnvironment
    /\ ms_connection = Some(Config("g", "u"))
    /\ ms_config = SQLServerEnvironment

----------------------------------------------------------------------------
(* Properties of the names of generated files (SpecGenerate).              *)

StampedOps == {"ReportTool.generate_pdf_report", "ReportTool.generate_excel_report"}
ExportOps == {"ReportTool.generate_csv_export", "ReportTool.generate_json_export"}
\* a generation that was given no name: none at all, or the empty string
AutoNamed(c) ==
    \/ c.op \in StampedOps
    \/ c.op \in ExportOps /\ (c.given = None \/ c.given = Some(""))
ExtOf(op) ==
    CASE op = "ReportTool.generate_pdf_report" -> <<".", "p", "d", "f">>
      [] op = "ReportTool.generate_excel_report" -> <<".", "x", "l", "s", "x">>
      [] op = "ReportTool.generate_csv_export" -> <<".", "c", "s", "v">>
      [] op = "ReportTool.generate_json_export" -> <<".", "j", "s", "o", "n">>
\* YYYYMMDD_HHMMSS
IsStamp(chars) ==
    /\ Len(chars) = 15
    /\ chars[9] = "_"
    /\ \A i \in (1..15) \ {9} :
           chars[i] \in {"0", "1", "2", "3", "4", "5", "6", "7", "8", "9"}
\* the name is something, a timestamp and the extension
HasStamp(name, ext) ==
    LET n == Len(name) - Len(ext) IN
    /\ n >= 15
    /\ SubSeq(name, n + 1, Len(name)) = ext
    /\ IsStamp(SubSeq(name, n - 14, n))

\* C18: a generation without a filename (absent or empty) returns a name
\* with a YYYYMMDD_HHMMSS timestamp before the extension, and two such
\* generations of the same kind at different clock seconds return
\* different names.
C18_AutoNamesDiffer ==
    [][AutoNamed(call') /\ Succeeded(result')
           => /\ HasStamp(result'.filename, ExtOf(call'.op))
              /\ (AutoNamed(call) /\ Succeeded(result) /\ call.op = call'.op
                     /\ call.at # call'.at)
                    => result.filename # result'.filename]_vars

\* an export with an empty filename at clock 2, the file of the export at
\* clock 1 still in the reports directory under another name
C18_Witness ==
    /\ call.op = "ReportTool.generate_csv_export"
    /\ call.given = Some("") /\ call.at = 2
    /\ Succeeded(result)
    /\ result.filename = <<"d", "a", "t", "a", "_", "e", "x", "p", "o", "r", "t", "_",
                           "2", "0", "2", "4", "0", "1", "0", "1", "_",
                           "0", "0", "0", "1", "0", "1", ".", "c", "s", "v">>
    /\ \E f \in disk :
           /\ f.name # result.filename
           /\ f.name = <<"d", "a", "t", "a", "_", "e", "x", "p", "o", "r", "t", "_">>
                           \o <<"2", "0", "2", "4", "0", "1", "0", "1", "_">>
                           \o <<"0", "0", "0", "1", "0", "0", ".", "c", "s", "v">>

----------------------------------------------------------------------------
(* Properties of the download of generated files (SpecReportRoutes).       *)

ReportRouteOps == {"report_pdf", "report_excel", "report_csv", "report_json"}

\* C19: a download of the filename a successful report endpoint has just
\* returned is served, from the path of the generated file and with what
\* was generated; a download of a name with no file in the reports
\* directory is answered with status 404.
C19_ReturnedNamesDownload ==
    [][call'.op = "report_download"
           => /\ (call.op \in ReportRouteOps /\ Succeeded(result)
                     /\ call'.name = result.filename)
                    => /\ "sent" \in DOMAIN result'
                       /\ result'.sent = result.filepath
                       /\ result'.content = file_content(disk, "reports", result.filename)
              /\ ~exists(disk, "reports", call'.name)
                    => "status" \in DOMAIN result' /\ result'.status = 404]_vars

----------------------------------------------------------------------------
(* Properties of an export read back (SpecRoundTrip).                      *)

\* the upload is of a CSV file that generate_csv_export wrote
ExportReloaded(c) ==
    /\ c.op = "data_upload"
    /\ endswith(secure_filename(c.filename), ".csv")
    /\ \E f \in disk : f.dir = "reports" /\ f.content = c.content /\ f.content.fmt = "csv"

\* C20: a CSV file written by generate_csv_export and uploaded again is
\* loaded, and the dataset it becomes has the row count and the set of
\* column names of the dataset that was exported.
C20_RoundTrip ==
    [][ExportReloaded(call') /\ ~(result' = Raised("OSError"))
           => /\ Succeeded(result')
              /\ current_dataframe' # None
              /\ NRows(Get(current_dataframe')) = NRows(Get(call'.content.table))
              /\ ColumnSet(Get(current_dataframe'))
                     = ColumnSet(Get(call'.content.table))]_vars

----------------------------------------------------------------------------
(* Properties of two loading requests handled at once (SpecRace).          *)

\* the response gives the rows, the columns and the preview of df
Describes(resp, df) ==
    /\ resp.rows = NRows(df)
    /\ resp.columns = df.columns
    /\ resp.data = to_records(head(df, 100))

\* once both requests are answered, the routing layer and the three
\* wrappers hold the table of one of them
LastWriterWins ==
    (\A t \in Requests : threads[t].pc = "sent")
        => \E t \in Requests :
               /\ current_dataframe = Some(threads[t].table)
               /\ eda_data = current_dataframe /\ chart_data = current_dataframe
               /\ report_data = current_dataframe

\* C15: when two loading requests run at the same time, after both are
\* answered all four places hold the dataset of one of the two requests,
\* and the response of each request describes one dataset.
C15_LastWriterWins ==
    threads # <<>> =>
        /\ LastWriterWins
        /\ \A t \in Requests :
               threads[t].pc \in {"done", "sent"}
                   => \E u \in Requests : Describes(threads[t].resp, threads[u].table)

----------------------------------------------------------------------------
(* Properties of outlier detection (SpecOutliers).                         *)

OutlierCallSucceeded == call.op = "EDATool.detect_outliers" /\ Succeeded(result)

\* the non-null values of the column the call named
CalledValues == dropna(Get(eda_data).cells[call.column])

DistinctValues == Cardinality(SeqToSet(CalledValues))

\* the k-th smallest value (k from 0), without sorting
KthSmallest(values, k) ==
    CHOOSE v \in SeqToSet(values) :
        /\ Cardinality({i \in DOMAIN values : values[i] < v}) <= k
        /\ Cardinality({i \in DOMAIN values : values[i] <= v}) > k

\* 4 times the q/4 quantile, interpolating linearly between the order
\* statistics on either side of position (n-1)*q/4
LinearQuantile4(values, q) ==
    LET h == (Len(values) - 1) * q
        lo == h \div 4
        r == h % 4
    IN  (4 - r) * KthSmallest(values, lo)
          + (IF r = 0 THEN 0 ELSE r * KthSmallest(values, lo + 1))

\* C7: for every successful detect_outliers call, with either method,
\* outlier_count is the number of non-null values of the column that are
\* strictly below lower_bound or strictly above upper_bound.
C7_OutlierCountIsOutsideBounds ==
    OutlierCallSucceeded =>
        result.outlier_count =
            Cardinality({i \in DOMAIN CalledValues :
                \/ IntLt(CalledValues[i], result.lower_bound)
                \/ IntGt(CalledValues[i], result.upper_bound)})

\* a z-score call that found an outlier
C7_Witness ==
    /\ OutlierCallSucceeded
    /\ call.method = "zscore"
    /\ result.outlier_count > 0

\* C8 as stated: on a column with at least two distinct values, a
\* successful detect_outliers call returns lower_bound < upper_bound.
C8_BoundsStrictWheneverVariance ==
    (OutlierCallSucceeded /\ DistinctValues >= 2) =>
        NumLt(result.lower_bound, result.upper_bound)

\* C8 amended: with 'zscore', lower_bound < upper_bound whenever the column
\* has at least two distinct values; with 'iqr', lower_bound <= upper_bound,
\* and lower_bound < upper_bound exactly when the quartiles differ.
C8_BoundsOrdered ==
    OutlierCallSucceeded =>
        /\ (call.method = "zscore" /\ DistinctValues >= 2) =>
               NumLt(result.lower_bound, result.upper_bound)
        /\ call.method = "iqr" =>
               /\ ~NumLt(result.upper_bound, result.lower_bound)
               /\ NumLt(result.lower_bound, result.upper_bound) <=>
                      LinearQuantile4(CalledValues, 1) < LinearQuantile4(CalledValues, 3)

\* an 'iqr' call on a column of nonzero variance whose bounds coincide
C8_Witness ==
    /\ OutlierCallSucceeded
    /\ call.method = "iqr"
    /\ DistinctValues >= 2
    /\ RatEq(result.lower_bound, result.upper_bound)

\* x is the mean of the values plus sign * 3 times their sample standard
\* deviation: its rational part is sum/n and the square of its radical part
\* is 9 * variance, with the sign asked for
IsMeanPlus3Std(x, sign, values) ==
    LET n == Len(values)
        S == SumSeq(values)
        V == n * SumSeq([i \in DOMAIN values |-> values[i] * values[i]]) - S * S
    IN  /\ ~x.nan
        /\ x.p * n = S * x.d
        /\ x.k * x.k * x.r * n * (n - 1) = 9 * V * x.d * x.d
        /\ x.k * sign >= 0

\* the places of the values more than 3 standard deviations from the mean
FarFromMean(values) ==
    LET n == Len(values)
        S == SumSeq(values)
        V == n * SumSeq([i \in DOMAIN values |-> values[i] * values[i]]) - S * S
    IN  {i \in DOMAIN values :
            (n * values[i] - S) * (n * values[i] - S) * (n - 1) > 9 * n * V}

\* C21: for method 'zscore', lower_bound = mean - 3*std and
\* upper_bound = mean + 3*std of the non-null values (NaN when there is a
\* single value), outlier_count is the number of non-null values v with
\* |v - mean| > 3*std, and a column whose values are all equal has none.
C21_ZscoreBounds ==
    (OutlierCallSucceeded /\ call.method = "zscore") =>
        /\ IF Len(CalledValues) < 2
           THEN result.lower_bound.nan /\ result.upper_bound.nan
                   /\ result.outlier_count = 0
           ELSE /\ IsMeanPlus3Std(result.lower_bound, -1, CalledValues)
                /\ IsMeanPlus3Std(result.upper_bound, 1, CalledValues)
                /\ result.outlier_count = Cardinality(FarFromMean(CalledValues))
        /\ DistinctValues = 1 => result.outlier_count = 0

\* a z-score call on a column with one value far from the others
C21_Witness ==
    /\ OutlierCallSucceeded
    /\ call.method = "zscore"
    /\ DistinctValues >= 2
    /\ result.outlier_count = 1
    /\ result.lower_bound.k < 0 /\ result.upper_bound.k > 0

\* C9: for method 'iqr', lower_bound = Q1 - 1.5*(Q3 - Q1) and
\* upper_bound = Q3 + 1.5*(Q3 - Q1), Q1 and Q3 being the 0.25 and 0.75
\* quantiles of the non-null values, interpolated linearly between order
\* statistics.
C9_IqrBounds ==
    (OutlierCallSucceeded /\ call.method = "iqr") =>
        LET Q1 == LinearQuantile4(CalledValues, 1)
            Q3 == LinearQuantile4(CalledValues, 3)
        IN  /\ RatEq(result.lower_bound, Num(2 * Q1 - 3 * (Q3 - Q1), 0, 0, 8))
            /\ RatEq(result.upper_bound, Num(2 * Q3 + 3 * (Q3 - Q1), 0, 0, 8))

\* an 'iqr' call whose first quartile falls strictly between two values
C9_Witness ==
    /\ OutlierCallSucceeded
    /\ call.method = "iqr"
    /\ LinearQuantile4(CalledValues, 1) % 4 # 0
    /\ result.outlier_count > 0

----------------------------------------------------------------------------
(* Properties of the correlation report (SpecCorr).                        *)

CorrCallSucceeded == call.op = "EDATool.get_correlations" /\ Succeeded(result)

\* |M[c1][c2]| > 0.7 in the returned matrix
AbsAbove07(M, c1, c2) ==
    /\ ~M[c1][c2].nan
    /\ 100 * M[c1][c2].cov * M[c1][c2].cov > 49 * M[c1][c2].vv

\* the entries of high_correlations that report the pair {c1, c2}
EntriesFor(H, c1, c2) ==
    {i \in DOMAIN H : {H[i].column1, H[i].column2} = {c1, c2}}

\* C10: high_correlations holds exactly the unordered pairs of distinct
\* columns whose correlation has absolute value > 0.7, each pair once, and
\* never a column paired with itself.
C10_HighCorrelationsExact ==
    CorrCallSucceeded =>
        LET M == result.correlation_matrix
            H == result.high_correlations
        IN  /\ \A i \in DOMAIN H :
                   /\ H[i].column1 # H[i].column2
                   /\ {H[i].column1, H[i].column2} \subseteq DOMAIN M
                   /\ AbsAbove07(M, H[i].column1, H[i].column2)
            /\ \A c1 \in DOMAIN M, c2 \in DOMAIN M :
                   c1 # c2 =>
                       Cardinality(EntriesFor(H, c1, c2)) =
                           (IF AbsAbove07(M, c1, c2) THEN 1 ELSE 0)

\* a report with a high pair and a pair that is defined but not high
C10_Witness ==
    /\ CorrCallSucceeded
    /\ Len(result.high_correlations) >= 1
    /\ \E c1 \in DOMAIN result.correlation_matrix,
          c2 \in DOMAIN result.correlation_matrix :
           /\ c1 # c2
           /\ ~result.correlation_matrix[c1][c2].nan
           /\ ~AbsAbove07(result.correlation_matrix, c1, c2)

====
